---- MODULE Spec2Model ----
(***************************************************************************)
(* PHYRE: the Python layer around the native simulator.                    *)
(*                                                                         *)
(*   - action mappers (phyre/action_mappers.py): unit-box actions to       *)
(*     UserInput, validity gates and quantization;                         *)
(*   - ActionSimulator.simulate_action (phyre/action_simulator.py);        *)
(*   - simulate_task_with_input (phyre/simulator.py) and the viz server's  *)
(*     simulate_task_by_id (phyre/viz_server/handler.py);                  *)
(*   - Evaluator.maybe_log_attempt (phyre/metrics.py).                     *)
(*                                                                         *)
(* Lengths are fixed-point numbers: an integer v stands for v / Q pixels.  *)
(* A component of an action is a real in [0, 1] in the code; here it is    *)
(* the integer numerator n of n / Den, with Den the denominator of its     *)
(* dimension (DimDenominators), chosen so that _scale is exact.            *)
(***************************************************************************)
EXTENDS Integers, Sequences, FiniteSets, TLC

VARIABLES
    tier,           \* ActionSimulator: name of the action mapper
    call,           \* arguments of the last simulate_action call
    user_input,     \* what action_to_user_input returned for it
    is_valid,       \* ... and its is_valid flag
    calls,          \* engine calls made by the last simulate_action, in order
    result,         \* what simulate_action returned (or raised)
    task_cache,     \* heap of Task objects: the cached tasks and the copy in use
    scenes,         \* heap of Scene objects, by reference
    last_sim,       \* the last simulate_task call: the scene it ran on
    config,         \* ServiceHandler._config
    ev_log,         \* Evaluator._log
    attempts_per_task_index,  \* Evaluator.attempts_per_task_index
    ev_call,        \* arguments of the last maybe_log_attempt call
    ev_ret,         \* its outcome: "True", "False", "AssertionError", "None"
    ev_calls,       \* number of maybe_log_attempt calls made (bounded)
    raw_simulation_log,  \* compute_metrics: its argument
    metrics,        \* compute_metrics: what it returned
    task_script,    \* a task script file: its content hash and declared version
    eval_files,     \* the eval-stats file and its meta file of that script
    solution_power, \* the solution-power file of that script
    loaded,         \* what the last maybe_load_evaluation returned
    poly_vertices,  \* vertices_to_polygon: the vertex list given
    polygon,        \* vertices_to_polygon: what the call did
    shape_builder,  \* the shape builder class used
    shape_scale,    \* the scale given to builder.diameter
    shape_diameter, \* what builder.diameter(scale) returned
    diameter_scale, \* what diameter_to_default_scale returned
    rebuilt_diameter, \* diameter of the shape built from that diameter
    body_list,      \* TaskCreator.body_list: the Body wrappers
    scene_bodies,   \* TaskCreator.scene.bodies: the thrift bodies
    creator_task,   \* TaskCreator.task: bodyId1, bodyId2, relationships, description
    task_bodies,    \* the bodies whose indices update_task last wrote
    creator_ret,    \* the last TaskCreator call and how it ended
    sim_tasks,      \* ActionSimulator._tasks: bodyId1, bodyId2, relationships of each
    no_goals,       \* ActionSimulator.__init__: its no_goals argument
    goals,          \* ActionSimulator.goals after construction
    DIAMETER_CENTERS,\* simulation.DIAMETER_CENTERS: jar diameter -> center_y
    shared_user_input,\* contents of the one action_mappers.EMPTY_USER_INPUT object
    py_call,        \* the last simulate_action or magic_ponies call
    py_result,      \* what that call returned
    sim_paths,      \* the result files on disk: key -> statuses written
    main_pc,        \* each invocation of main: where it stands
    main_key,       \* each invocation of main: its (num_actions, tier, task_id)
    sim_writers,    \* for each key, the invocations that wrote its file, in order
    side_heap,      \* a MaxHeapWithSideLoad: heap, key_to_entry and the entry lists
    live_keys,      \* the keys pushed and not popped since, with their priorities
    heap_ret,       \* what the last operation on side_heap returned, a copy too
    mem_in,         \* the arguments of MemoizeAgent.eval
    mem_pc,         \* where eval stands: phase, template groups, group, index in the group
    mem_heap,       \* regret_action_heap of the running _eval
    to_push,        \* to_push of the running task loop
    mem_log,        \* evaluator._log
    mem_attempts,   \* evaluator.attempts_per_task_index
    mem_trace,      \* every loop iteration so far: task evaluated, action, status, logged
    te_in,          \* the arguments of the TaskEvaller and the simulations of the tasks
    te_state,       \* TaskEvaller._state, each stats with the actions it counted
    te_pc,          \* where the loop of main stands
    te_chunk,       \* simluation_tasks of the running step, and how many results were taken
    te_files,       \* the checkpoint file and its .tmp
    te_world,       \* across restarts: kills so far, the pairs ever simulated
    sel_pc,         \* select_max_diverse_subset: in its loop, or returned
    sel_in,         \* its arguments: the candidate tasks and max_tasks
    action_tasks,   \* the matrix action_tasks, row by row
    sel_task_ids,   \* the list task_ids
    sel_threshold,  \* threshold, as a fraction
    sel_ret,        \* the tasks returned
    task_dict,      \* load_compiled_task_dict(): the tier of each task
    comp_pc,        \* compress_partial_simuations.main: where it stands
    task_ids_per_tier,\* task_ids_per_tier of main
    cache_files,    \* the simulation_cache.gz written for each action tier: its task ids
    compiled_tasks, \* load_compiled_task_dict() of metrics.py: the tiers of the tasks of each template
    fold_ret        \* get_fold: its call and the tuples it returned

simVars == <<tier, call, user_input, is_valid, calls, result>>
taskVars == <<task_cache, scenes, last_sim, config>>
evalVars == <<ev_log, attempts_per_task_index, ev_call, ev_ret, ev_calls>>
metricsVars == <<raw_simulation_log, metrics>>
evalFileVars == <<task_script, eval_files, solution_power, loaded>>
polygonVars == <<poly_vertices, polygon>>
shapeVars == <<shape_builder, shape_scale, shape_diameter, diameter_scale, rebuilt_diameter>>
creatorVars == <<body_list, scene_bodies, creator_task, task_bodies, creator_ret>>
goalVars == <<sim_tasks, no_goals, goals>>
repeatVars == <<DIAMETER_CENTERS, shared_user_input, py_call, py_result>>
offlineVars == <<sim_paths, main_pc, main_key, sim_writers>>
heapVars == <<side_heap, live_keys, heap_ret>>
memVars == <<mem_in, mem_pc, mem_heap, to_push, mem_log, mem_attempts, mem_trace>>
evallerVars == <<te_in, te_state, te_pc, te_chunk, te_files, te_world>>
selectVars == <<sel_pc, sel_in, action_tasks, sel_task_ids, sel_threshold, sel_ret>>
compressVars == <<task_dict, comp_pc, task_ids_per_tier, cache_files>>
foldVars == <<compiled_tasks, fold_ret>>

vars == <<simVars, taskVars, evalVars, metricsVars, evalFileVars, polygonVars, shapeVars, creatorVars, goalVars, repeatVars, offlineVars, heapVars, memVars, evallerVars, selectVars, compressVars, foldVars>>

\* What the operations on one group of objects leave alone.
coreVars == <<simVars, taskVars, evalVars>>
extVars == <<metricsVars, evalFileVars, polygonVars, shapeVars, creatorVars, goalVars, repeatVars, offlineVars, heapVars, memVars, evallerVars, selectVars, compressVars, foldVars>>
exceptMetrics == <<coreVars, evalFileVars, polygonVars, shapeVars, creatorVars, goalVars, repeatVars, offlineVars, heapVars, memVars, evallerVars, selectVars, compressVars, foldVars>>
exceptEvalFiles == <<coreVars, metricsVars, polygonVars, shapeVars, creatorVars, goalVars, repeatVars, offlineVars, heapVars, memVars, evallerVars, selectVars, compressVars, foldVars>>
exceptPolygon == <<coreVars, metricsVars, evalFileVars, shapeVars, creatorVars, goalVars, repeatVars, offlineVars, heapVars, memVars, evallerVars, selectVars, compressVars, foldVars>>
exceptShape == <<coreVars, metricsVars, evalFileVars, polygonVars, creatorVars, goalVars, repeatVars, offlineVars, heapVars, memVars, evallerVars, selectVars, compressVars, foldVars>>
exceptCreator == <<coreVars, metricsVars, evalFileVars, polygonVars, shapeVars, goalVars, repeatVars, offlineVars, heapVars, memVars, evallerVars, selectVars, compressVars, foldVars>>
exceptGoal == <<coreVars, metricsVars, evalFileVars, polygonVars, shapeVars, creatorVars, repeatVars, offlineVars, heapVars, memVars, evallerVars, selectVars, compressVars, foldVars>>
exceptRepeat == <<coreVars, metricsVars, evalFileVars, polygonVars, shapeVars, creatorVars, goalVars, offlineVars, heapVars, memVars, evallerVars, selectVars, compressVars, foldVars>>
exceptOffline == <<coreVars, metricsVars, evalFileVars, polygonVars, shapeVars, creatorVars, goalVars, repeatVars, heapVars, memVars, evallerVars, selectVars, compressVars, foldVars>>
exceptHeap == <<coreVars, metricsVars, evalFileVars, polygonVars, shapeVars, creatorVars, goalVars, repeatVars, offlineVars, memVars, evallerVars, selectVars, compressVars, foldVars>>
exceptMem == <<coreVars, metricsVars, evalFileVars, polygonVars, shapeVars, creatorVars, goalVars, repeatVars, offlineVars, heapVars, evallerVars, selectVars, compressVars, foldVars>>
exceptEvaller == <<coreVars, metricsVars, evalFileVars, polygonVars, shapeVars, creatorVars, goalVars, repeatVars, offlineVars, heapVars, memVars, selectVars, compressVars, foldVars>>
exceptSelect == <<coreVars, metricsVars, evalFileVars, polygonVars, shapeVars, creatorVars, goalVars, repeatVars, offlineVars, heapVars, memVars, evallerVars, compressVars, foldVars>>
exceptCompress == <<coreVars, metricsVars, evalFileVars, polygonVars, shapeVars, creatorVars, goalVars, repeatVars, offlineVars, heapVars, memVars, evallerVars, selectVars, foldVars>>
exceptFold == <<coreVars, metricsVars, evalFileVars, polygonVars, shapeVars, creatorVars, goalVars, repeatVars, offlineVars, heapVars, memVars, evallerVars, selectVars, compressVars>>

(***************************************************************************)
(* Bounds of the model.                                                    *)
(***************************************************************************)
\* Half a pixel in fixed-point units: the resolution is Q = 2 * Sub.
Sub == 4
\* Number of tasks the ActionSimulator / the task cache holds.
NumTasks == 2
\* Number of maybe_log_attempt calls explored from each initial Evaluator.
MaxEvalCalls == 2
\* Number of scene bodies a user input may add in one simulation.
MaxInputBodies == 2
\* Length of the free part of a simulation log given to compute_metrics.
MaxLogLen == 2
\* Number of different contents a task script file goes through.
NumScriptTexts == 2
\* Vertices of polygons lie on the grid 0..GridMax x 0..GridMax.
GridMax == 2
\* Longest vertex list given to vertices_to_polygon.
MaxVertices == 5
\* Lengths of shapes are whole multiples of 1/(50 * ScaleFine) pixel.
ScaleFine == 1
\* Number of bodies added to a TaskCreator after its four walls.
MaxBodies == 2
\* Largest body index of a task given to an ActionSimulator.
MaxBodyId == 5

Q == 2 * Sub

RECURSIVE SumTo(_, _)
SumTo(f, n) == IF n = 0 THEN 0 ELSE SumTo(f, n - 1) + f[n]

Max2(a, b) == IF a >= b THEN a ELSE b
Min2(a, b) == IF a <= b THEN a ELSE b

(***************************************************************************)
(* Program constants.                                                      *)
(***************************************************************************)
SCENE_WIDTH == 256
SCENE_HEIGHT == 256
MIN_RADIUS == 2
MAX_RADIUS == Max2(SCENE_WIDTH, SCENE_HEIGHT) \div 8
MIN_SIDE == 4
MAX_SIDE == Max2(SCENE_WIDTH, SCENE_HEIGHT) \div 4

\* SimulationStatus (an IntEnum)
NOT_SOLVED == -1
INVALID_INPUT == 0
SOLVED == 1
UNSTABLY_SOLVED == 2
STABLY_SOLVED == 3

SimulationStatus == {NOT_SOLVED, INVALID_INPUT, SOLVED, UNSTABLY_SOLVED, STABLY_SOLVED}

is_solved(status) == status \in {SOLVED, STABLY_SOLVED, UNSTABLY_SOLVED}
is_not_solved(status) == status = NOT_SOLVED
is_invalid(status) == status = INVALID_INPUT

Tiers == {"ball", "two_balls", "ramp"}

(***************************************************************************)
(* Python's numeric conversions on fixed-point values.                     *)
(***************************************************************************)
\* round(v): to the nearest integer, ties to the even one; result in units.
PyRound(v) ==
    LET fl == v \div Q
        rem == v % Q
    IN  IF 2 * rem < Q THEN fl * Q
        ELSE IF 2 * rem > Q THEN (fl + 1) * Q
        ELSE IF fl % 2 = 0 THEN fl * Q ELSE (fl + 1) * Q

\* int(v): truncation towards zero; result in units.
PyInt(v) == IF v >= 0 THEN (v \div Q) * Q ELSE 0 - (((0 - v) \div Q) * Q)

IsInteger(v) == v % Q = 0

(***************************************************************************)
(* scene_if.UserInput and its parts.                                       *)
(***************************************************************************)
Vector(x, y) == [x |-> x, y |-> y]
CircleWithPosition(position, radius) == [position |-> position, radius |-> radius]
AbsoluteConvexPolygon(vertices) == [vertices |-> vertices]
UserInput(points, balls, polygons) ==
    [flattened_point_list |-> points, balls |-> balls, polygons |-> polygons]

EMPTY_USER_INPUT == UserInput(<<>>, <<>>, <<>>)

SeqMap(F(_), s) == [i \in 1..Len(s) |-> F(s[i])]

(***************************************************************************)
(* action_mappers.py                                                       *)
(***************************************************************************)
\* _scale(x, low, high) = x * (high - low) + low, for x = n / ((high - low) * Q),
\* in units of 1 / Q.
Scale(n, low, high) == n + low * Q

\* The denominators of the components of an action, per tier; the last
\* component of a ramp action is an angle, counted in quarter turns.
BallDenominators ==
    <<(SCENE_WIDTH - 1) * Q, (SCENE_HEIGHT - 1) * Q, (MAX_RADIUS - MIN_RADIUS) * Q>>
DimDenominators(t) ==
    IF t = "ball" THEN BallDenominators
    ELSE IF t = "two_balls" THEN BallDenominators \o BallDenominators
    ELSE <<(SCENE_WIDTH - 1) * Q, (SCENE_HEIGHT - 1) * Q, (MAX_SIDE - MIN_SIDE) * Q,
           MAX_SIDE * Q, MAX_SIDE * Q, 4>>

\* all(0 <= x <= 1 for x in action)
InUnitBox(t, action) ==
    \A i \in 1..Len(action) : 0 <= action[i] /\ action[i] <= DimDenominators(t)[i]

\* BallScaler.scale and BallScaler.add_to_user_input
BallScalerScale(a) ==
    CircleWithPosition(Vector(Scale(a[1], 0, SCENE_WIDTH - 1),
                              Scale(a[2], 0, SCENE_HEIGHT - 1)),
                       Scale(a[3], MIN_RADIUS, MAX_RADIUS))

\* cos and sin of k quarter turns
Cos4(k) == IF k % 4 = 0 THEN 1 ELSE IF k % 4 = 2 THEN -1 ELSE 0
Sin4(k) == IF k % 4 = 1 THEN 1 ELSE IF k % 4 = 3 THEN -1 ELSE 0

\* RampScaler.scale and RampScaler.get_vertices
RampScalerGetVertices(a) ==
    LET x == Scale(a[1], 0, SCENE_WIDTH - 1)
        y == Scale(a[2], 0, SCENE_HEIGHT - 1)
        width == Scale(a[3], MIN_SIDE, MAX_SIDE)
        left_height == Scale(a[4], 0, MAX_SIDE)
        right_height == Max2(Scale(a[5], 0, MAX_SIDE), MIN_SIDE * Q)
        points == IF left_height < 1 * Q
                  THEN <<Vector(0, 0), Vector(0, right_height), Vector(0 - width, 0)>>
                  ELSE <<Vector(0, 0), Vector(0, right_height),
                         Vector(0 - width, left_height), Vector(0 - width, 0)>>
        c == Cos4(a[6])
        s == Sin4(a[6])
        \* row vector times [[cos, -sin], [sin, cos]], plus (x, y)
        Rot(p) == Vector(p.x * c + p.y * s + x, (0 - p.x) * s + p.y * c + y)
    IN  SeqMap(Rot, points)

\* The UserInput built from the scaled action, before any validity gate.
ScaledUserInput(t, action) ==
    IF t = "ball" THEN UserInput(<<>>, <<BallScalerScale(action)>>, <<>>)
    ELSE IF t = "two_balls"
    THEN UserInput(<<>>, <<BallScalerScale(SubSeq(action, 1, 3)),
                           BallScalerScale(SubSeq(action, 4, 6))>>, <<>>)
    ELSE UserInput(<<>>, <<>>, <<AbsoluteConvexPolygon(RampScalerGetVertices(action))>>)

\* _is_inside_scene
ArePointsInside(ui) ==
    \A i \in 1..Len(ui.polygons) : \A j \in 1..Len(ui.polygons[i].vertices) :
        LET p == ui.polygons[i].vertices[j]
        IN  0 <= p.x /\ p.x < SCENE_WIDTH * Q /\ 0 <= p.y /\ p.y < SCENE_HEIGHT * Q
AreBallsInside(ui) ==
    \A i \in 1..Len(ui.balls) :
        LET b == ui.balls[i]
        IN  /\ b.radius <= b.position.x /\ b.position.x <= SCENE_WIDTH * Q - b.radius
            /\ b.radius <= b.position.y /\ b.position.y <= SCENE_HEIGHT * Q - b.radius
IsInsideScene(ui) == ArePointsInside(ui) /\ AreBallsInside(ui)

\* A variant that quantizes positions and vertices but leaves the radius as scaled.
QuantizeKeepRadius(ui) ==
    UserInput(ui.flattened_point_list,
              SeqMap(LAMBDA b : CircleWithPosition(
                         Vector(PyInt(b.position.x), PyInt(b.position.y)), b.radius),
                     ui.balls),
              SeqMap(LAMBDA p : AbsoluteConvexPolygon(
                         SeqMap(LAMBDA v : Vector(PyRound(v.x), PyRound(v.y)), p.vertices)),
                     ui.polygons))
\* _quantize_user_input_in_place: round() on vertices and radii, int() on centers
QuantizeUserInput(ui) ==
    UserInput(ui.flattened_point_list,
              SeqMap(LAMBDA b : CircleWithPosition(
                         Vector(PyInt(b.position.x), PyInt(b.position.y)),
                         PyRound(b.radius)),
                     ui.balls),
              SeqMap(LAMBDA p : AbsoluteConvexPolygon(
                         SeqMap(LAMBDA v : Vector(PyRound(v.x), PyRound(v.y)), p.vertices)),
                     ui.polygons))

\* TwoBallsActionMapper: dist < ball1.radius + ball2.radius + 1, on squares
BallsTooClose(ui) ==
    LET b1 == ui.balls[1]
        b2 == ui.balls[2]
        dx == b1.position.x - b2.position.x
        dy == b1.position.y - b2.position.y
        reach == b1.radius + b2.radius + 1 * Q
    IN  dx * dx + dy * dy < reach * reach

Rejected == [user_input |-> EMPTY_USER_INPUT, is_valid |-> FALSE]
Accepted(ui) == [user_input |-> ui, is_valid |-> TRUE]

\* A variant without the two validity gates.
NoGatesActionToUserInput(t, action) ==
    Accepted(QuantizeUserInput(ScaledUserInput(t, action)))
\* SingleBallActionMapper.action_to_user_input / RampActionMapper.action_to_user_input
PlainActionToUserInput(t, action) ==
    IF ~InUnitBox(t, action) THEN Rejected
    ELSE IF ~IsInsideScene(ScaledUserInput(t, action)) THEN Rejected
    ELSE Accepted(QuantizeUserInput(ScaledUserInput(t, action)))

\* A variant without the test on the distance of the two balls.
NoDistTwoBallsActionToUserInput(action) == PlainActionToUserInput("two_balls", action)
\* TwoBallsActionMapper.action_to_user_input
TwoBallsActionToUserInput(action) ==
    LET ui == ScaledUserInput("two_balls", action)
    IN  IF ~InUnitBox("two_balls", action) THEN Rejected
        ELSE IF ~IsInsideScene(ui) THEN Rejected
        ELSE IF BallsTooClose(ui) THEN Rejected
        ELSE IF ~IsInsideScene(ui) THEN Rejected
        ELSE Accepted(QuantizeUserInput(ui))

\* ActionSimulator._get_user_input
ActionToUserInput(t, action) ==
    IF t = "two_balls" THEN TwoBallsActionToUserInput(action)
    ELSE PlainActionToUserInput(t, action)

\* A variant in which the ramp tier keeps the default of the base class (True).
BaseDefaultKeepSpace(t) == IF t = "ramp" THEN TRUE ELSE FALSE
\* KEEP_SPACE_AROUND_BODIES as each registered tier (ball, two_balls, ramp) sets it
KEEP_SPACE_AROUND_BODIES(t) == FALSE
\* ActionMapper.OCCLUSIONS_ALLOWED
OCCLUSIONS_ALLOWED(t) == FALSE

(***************************************************************************)
(* The native engine (simulator_bindings), as the specification describes  *)
(* it: check_for_occlusions is a pure predicate of the scene and the       *)
(* candidate geometry, and a simulation is a deterministic function of the *)
(* task and the user input.  Task i has one static box next to the column  *)
(* x = 100 px and is solved by a user body placed in its goal column.      *)
(***************************************************************************)
Task(i) ==
    [body |-> [xl |-> 102 * Q + 2, xh |-> 110 * Q, yl |-> 0, yh |-> 60 * Q],
     goal |-> [lo |-> (100 - (i - 1)) * Q, hi |-> (100 + (i - 1)) * Q]]

\* The fixed margin kept around scene bodies when keep_space_around_bodies is set.
DilationMargin == Q

Clamp(v, lo, hi) == IF v < lo THEN lo ELSE IF v > hi THEN hi ELSE v

BallTouchesBox(b, box, margin) ==
    LET cx == Clamp(b.position.x, box.xl - margin, box.xh + margin)
        cy == Clamp(b.position.y, box.yl - margin, box.yh + margin)
        dx == b.position.x - cx
        dy == b.position.y - cy
    IN  dx * dx + dy * dy < b.radius * b.radius

BallCrossesWall(b) ==
    \/ b.position.x - b.radius < 0 \/ b.position.x + b.radius > SCENE_WIDTH * Q
    \/ b.position.y - b.radius < 0 \/ b.position.y + b.radius > SCENE_HEIGHT * Q

PolygonTouchesBox(p, box, margin) ==
    LET vs == {p.vertices[j] : j \in 1..Len(p.vertices)}
    IN  /\ \E v \in vs : v.x <= box.xh + margin
        /\ \E v \in vs : v.x >= box.xl - margin
        /\ \E v \in vs : v.y <= box.yh + margin
        /\ \E v \in vs : v.y >= box.yl - margin

\* simulator_bindings.check_for_occlusions_general
CheckForOcclusions(task_index, ui, keep_space) ==
    LET box == Task(task_index).body
        margin == IF keep_space THEN DilationMargin ELSE 0
    IN  \/ \E i \in 1..Len(ui.balls) :
              BallTouchesBox(ui.balls[i], box, margin) \/ BallCrossesWall(ui.balls[i])
        \/ \E i \in 1..Len(ui.polygons) : PolygonTouchesBox(ui.polygons[i], box, margin)

\* The verdict of the simulation of a task with a user input that does not occlude.
IsSolved(task_index, ui) ==
    LET goal == Task(task_index).goal
        InGoal(x) == goal.lo <= x /\ x <= goal.hi
    IN  \/ \E i \in 1..Len(ui.balls) : InGoal(ui.balls[i].position.x)
        \/ \E i \in 1..Len(ui.polygons) : \E j \in 1..Len(ui.polygons[i].vertices) :
              InGoal(ui.polygons[i].vertices[j].x)

\* What the engine returns for a user input that does / does not occlude.
EngineResult(task_index, ui, need_images, need_featurized_objects, had_occlusions) ==
    [is_solved |-> ~had_occlusions /\ IsSolved(task_index, ui),
     had_occlusions |-> had_occlusions,
     images |-> IF need_images /\ ~had_occlusions THEN "array" ELSE "empty",
     objects |-> IF need_featurized_objects /\ ~had_occlusions THEN "array" ELSE "empty"]

\* simulator_bindings.magic_ponies_general, as phyre.simulator.magic_ponies returns it
MagicPonies(task_index, ui, stride, keep_space, need_images, need_featurized_objects) ==
    EngineResult(task_index, ui, need_images, need_featurized_objects,
                 CheckForOcclusions(task_index, ui, keep_space))

(***************************************************************************)
(* action_simulator.py                                                     *)
(***************************************************************************)
NoStride == 100000

\* What one run of _simulate_user_input asked of the engine: whether it called
\* check_for_occlusions and then magic_ponies, with which arguments, and what
\* they answered.
EngineCalls(ui, keep_space, checked, occluded, simulated, stride, ni, nf, sim) ==
    [user_input |-> ui, keep_space |-> keep_space,
     checked |-> checked, occluded |-> occluded,
     simulated |-> simulated, stride |-> stride, need_images |-> ni,
     need_featurized_objects |-> nf,
     is_solved |-> simulated /\ sim.is_solved,
     had_occlusions |-> simulated /\ sim.had_occlusions]

\* _simulate_user_input, lines 185-199: from what magic_ponies returned to the
\* status, or to the AssertionError of line 192.
StatusOfSimulation(t, ui, need_images, need_featurized_objects, eff_stride, checked, sim) ==
    IF sim.had_occlusions /\ ~OCCLUSIONS_ALLOWED(t)
    THEN [raised |-> TRUE, status |-> INVALID_INPUT, images |-> "None",
          objects |-> "None",
          rec |-> EngineCalls(ui, KEEP_SPACE_AROUND_BODIES(t), checked, FALSE, TRUE,
                              eff_stride, need_images, need_featurized_objects, sim)]
    ELSE [raised |-> FALSE,
          status |-> IF sim.is_solved THEN SOLVED ELSE NOT_SOLVED,
          images |-> IF need_images THEN sim.images ELSE "None",
          objects |-> IF need_featurized_objects THEN sim.objects ELSE "None",
          rec |-> EngineCalls(ui, KEEP_SPACE_AROUND_BODIES(t), checked, FALSE, TRUE,
                              eff_stride, need_images, need_featurized_objects, sim)]

\* _simulate_user_input, lines 176-184: the call of magic_ponies
EffectiveStride(need_images, need_featurized_objects, stride) ==
    IF ~need_images /\ ~need_featurized_objects THEN NoStride ELSE stride
RunSimulation(t, task_index, ui, need_images, need_featurized_objects, stride, checked) ==
    StatusOfSimulation(
        t, ui, need_images, need_featurized_objects,
        EffectiveStride(need_images, need_featurized_objects, stride), checked,
        MagicPonies(task_index, ui,
                    EffectiveStride(need_images, need_featurized_objects, stride),
                    KEEP_SPACE_AROUND_BODIES(t), need_images, need_featurized_objects))

\* A variant that leaves the verdict on occlusions to the simulation itself.
StatusOfUngatedSimulation(t, ui, need_images, need_featurized_objects, stride, sim) ==
    [raised |-> FALSE,
     status |-> IF sim.had_occlusions THEN INVALID_INPUT
                ELSE IF sim.is_solved THEN SOLVED ELSE NOT_SOLVED,
     images |-> IF need_images THEN "array" ELSE "None",
     objects |-> IF need_featurized_objects THEN "array" ELSE "None",
     rec |-> EngineCalls(ui, KEEP_SPACE_AROUND_BODIES(t), FALSE, FALSE, TRUE, stride,
                         need_images, need_featurized_objects, sim)]
SimulateUserInputNoGate(t, task_index, ui, need_images, need_featurized_objects, stride) ==
    StatusOfUngatedSimulation(
        t, ui, need_images, need_featurized_objects, stride,
        MagicPonies(task_index, ui, stride, KEEP_SPACE_AROUND_BODIES(t), need_images,
                    need_featurized_objects))

\* ActionSimulator._simulate_user_input
SimulateUserInput(t, task_index, ui, need_images, need_featurized_objects, stride) ==
    IF ~OCCLUSIONS_ALLOWED(t)
          /\ CheckForOcclusions(task_index, ui, KEEP_SPACE_AROUND_BODIES(t))
    THEN [raised |-> FALSE, status |-> INVALID_INPUT, images |-> "None",
          objects |-> "None",
          rec |-> EngineCalls(ui, KEEP_SPACE_AROUND_BODIES(t), TRUE, TRUE, FALSE, 0,
                              FALSE, FALSE,
                              [is_solved |-> FALSE, had_occlusions |-> FALSE])]
    ELSE RunSimulation(t, task_index, ui, need_images, need_featurized_objects, stride,
                       ~OCCLUSIONS_ALLOWED(t))

\* _yield_user_input_neighborhood: (dx, dy) in the order of the two loops
NeighborOffsets ==
    <<Vector(0 - Sub, 0 - Sub), Vector(0 - Sub, 0), Vector(0 - Sub, Sub),
      Vector(0, 0 - Sub), Vector(0, Sub),
      Vector(Sub, 0 - Sub), Vector(Sub, 0), Vector(Sub, Sub)>>

ShiftUserInput(ui, dx, dy) ==
    UserInput(ui.flattened_point_list,
              SeqMap(LAMBDA b : CircleWithPosition(
                         Vector(b.position.x + dx, b.position.y + dy), b.radius),
                     ui.balls),
              SeqMap(LAMBDA p : AbsoluteConvexPolygon(
                         SeqMap(LAMBDA v : Vector(v.x + dx, v.y + dy), p.vertices)),
                     ui.polygons))

YieldUserInputNeighborhood(ui) ==
    [k \in 1..Len(NeighborOffsets) |->
        ShiftUserInput(ui, NeighborOffsets[k].x, NeighborOffsets[k].y)]

Simulation(status, images, featurized_objects) ==
    [kind |-> "returned", status |-> status, images |-> images,
     featurized_objects |-> IF featurized_objects /= "None"
                            THEN "FeaturizedObjects" ELSE "None"]
Raised == [kind |-> "AssertionError", status |-> INVALID_INPUT, images |-> "None",
           featurized_objects |-> "None"]
NoResult == [kind |-> "none", status |-> INVALID_INPUT, images |-> "None",
             featurized_objects |-> "None"]

\* The neighbours the loop of simulate_action gets to: all of them, or those up
\* to the first that is not solved (or on which the simulation raises).
LoopStops(rs) == {k \in 1..Len(rs) : rs[k].raised \/ is_not_solved(rs[k].status)}
LoopEnd(rs) ==
    IF LoopStops(rs) = {} THEN Len(rs)
    ELSE CHOOSE k \in LoopStops(rs) : \A j \in LoopStops(rs) : k <= j

\* _simulate_user_input(task_index, modified_user_input, need_images=False,
\*                      need_featurized_objects=False, stride=stride), per neighbour
NeighborResults(t, task_index, nbrs, stride) ==
    [k \in 1..Len(nbrs) |->
        SimulateUserInput(t, task_index, nbrs[k], FALSE, FALSE, stride)]

\* A variant of the loop in which any neighbour that is not solved counts.
StrictNeighborLoop(rs, base) ==
    [res |-> Simulation(IF \E k \in 1..Len(rs) : ~is_solved(rs[k].status)
                        THEN UNSTABLY_SOLVED ELSE STABLY_SOLVED,
                        base.images, base.objects),
     calls |-> [k \in 1..Len(rs) |-> rs[k].rec]]

\* The loop of simulate_action over the neighbourhood (lines 286-301), on the
\* results rs its calls of _simulate_user_input produce.
NeighborLoop(rs, base) ==
    [res |-> IF LoopStops(rs) = {}
             THEN Simulation(STABLY_SOLVED, base.images, base.objects)
             ELSE IF rs[LoopEnd(rs)].raised THEN Raised
             ELSE Simulation(UNSTABLY_SOLVED, base.images, base.objects),
     calls |-> [k \in 1..LoopEnd(rs) |-> rs[k].rec]]

\* simulate_action, lines 278-301: after the action mapper accepted the action
SimulateMain(t, c, m, main) ==
    IF main.raised THEN [mapped |-> m, res |-> Raised, calls |-> <<main.rec>>]
    ELSE IF ~c.stable \/ ~is_solved(main.status)
    THEN [mapped |-> m, res |-> Simulation(main.status, main.images, main.objects),
          calls |-> <<main.rec>>]
    ELSE [mapped |-> m,
          res |-> NeighborLoop(
                      NeighborResults(t, c.task_index,
                                      YieldUserInputNeighborhood(m.user_input),
                                      c.stride), main).res,
          calls |-> <<main.rec>>
                    \o NeighborLoop(
                           NeighborResults(t, c.task_index,
                                           YieldUserInputNeighborhood(m.user_input),
                                           c.stride), main).calls]

\* simulate_action, lines 273-276: the gate of the action mapper
SimulateMapped(t, c, m) ==
    IF ~m.is_valid
    THEN [mapped |-> m, res |-> Simulation(INVALID_INPUT, "None", "None"),
          calls |-> <<>>]
    ELSE SimulateMain(t, c, m,
                      SimulateUserInput(t, c.task_index, m.user_input, c.need_images,
                                        c.need_featurized_objects, c.stride))

\* ActionSimulator.simulate_action
SimulateActionResult(t, c) == SimulateMapped(t, c, ActionToUserInput(t, c.action))

(***************************************************************************)
(* The actions a caller draws from, per tier.                              *)
(***************************************************************************)
BallXs == {0 - 1, 0, 4 * Q - 1, 100 * Q, (SCENE_WIDTH - 1) * Q, (SCENE_WIDTH - 1) * Q + 1}
BallYs == {4 * Q - 1, 50 * Q, 128 * Q}
BallRs == {0 - 1, 0, Q + Sub + 1, (MAX_RADIUS - MIN_RADIUS) * Q,
           (MAX_RADIUS - MIN_RADIUS) * Q + 1}
BallActions == {<<x, y, r>> : x \in BallXs, y \in BallYs, r \in BallRs}

TwoBallsActions ==
    {<<x1, y1, r1, x2, y2, r2>> :
        x1 \in {0 - 1, 4 * Q - 1, 100 * Q}, y1 \in {50 * Q, 128 * Q},
        r1 \in {0, Q + Sub + 1},
        x2 \in {103 * Q, 104 * Q + Sub, 105 * Q, 150 * Q}, y2 \in {50 * Q, 128 * Q},
        r2 \in {0, (MAX_RADIUS - MIN_RADIUS) * Q + 1}}

RampActions ==
    {<<x, y, w, lh, rh, a>> :
        x \in {0, 100 * Q, (SCENE_WIDTH - 1) * Q + 1}, y \in {50 * Q, 128 * Q},
        w \in {0, 6 * Q + 3}, lh \in {0, 8 * Q + 5}, rh \in {0, 8 * Q + Sub},
        a \in {0, 1, 2, 3, 5}}

ActionsOf(t) ==
    IF t = "ball" THEN BallActions
    ELSE IF t = "two_balls" THEN TwoBallsActions ELSE RampActions

Strides == {1, 3}

NoCall == [task_index |-> 0, action |-> <<>>, need_images |-> FALSE,
           need_featurized_objects |-> FALSE, stride |-> 0, stable |-> FALSE]

SimIdle ==
    /\ call = NoCall
    /\ user_input = EMPTY_USER_INPUT
    /\ is_valid = FALSE
    /\ calls = <<>>
    /\ result = NoResult

\* simulate_action(task_index, action, need_images=..., need_featurized_objects=...,
\*                 stride=..., stable=...)
SimulateAction ==
    /\ result.kind = "none"
    /\ \E task_index \in 1..NumTasks, action \in ActionsOf(tier),
          need_images \in BOOLEAN, need_featurized_objects \in BOOLEAN,
          stride \in Strides, stable \in BOOLEAN :
          \E c \in {[task_index |-> task_index, action |-> action,
                     need_images |-> need_images,
                     need_featurized_objects |-> need_featurized_objects,
                     stride |-> stride, stable |-> stable]} :
          \E r \in {SimulateActionResult(tier, c)} :
              /\ call' = c
              /\ user_input' = r.mapped.user_input
              /\ is_valid' = r.mapped.is_valid
              /\ calls' = r.calls
              /\ result' = r.res
    /\ UNCHANGED <<tier, taskVars, evalVars, extVars>>

\* The caller drops the Simulation it got.
DropSimulation ==
    /\ result.kind /= "none"
    /\ call' = NoCall
    /\ user_input' = EMPTY_USER_INPUT
    /\ is_valid' = FALSE
    /\ calls' = <<>>
    /\ result' = NoResult
    /\ UNCHANGED <<tier, taskVars, evalVars, extVars>>

(***************************************************************************)
(* simulator.py and viz_server/handler.py: simulating a task with a user   *)
(* input.  Task and Scene objects live in two heaps and are held by        *)
(* reference; a Task's scene field is a reference into the scene heap.     *)
(***************************************************************************)
TaskId(i) == <<"task", i>>

TaskRefs == 1..(NumTasks + 1)
TempTaskRef == NumTasks + 1
SceneRefs == 1..(2 * NumTasks + 1)

DeadTask == [live |-> FALSE, taskId |-> TaskId(0), scene |-> 0]
FreeScene == [live |-> FALSE, bodies |-> <<>>, user_input_bodies |-> <<>>]

\* The scene of task i as the task scripts build it: four walls, then i bodies.
OriginalScene(i) ==
    [live |-> TRUE,
     bodies |-> <<"bottom", "left", "top", "right">> \o [j \in 1..i |-> "body"],
     user_input_bodies |-> <<>>]

PROD_MODE == "prod"
DEV_MODE == "dev"
DEMO_MODE == "demo"
MAX_BALLS_DEMO_MODE == 5

Take(s, n) == SubSeq(s, 1, Min2(n, Len(s)))

\* The user inputs of the visualisation clients: a stroke or none, a polygon or
\* none, and up to MaxInputBodies balls.
TaskUserInputs ==
    {UserInput(pts, [j \in 1..nb |-> "ball"], polys) :
        pts \in {<<>>, <<10, 10, 11, 10>>},
        nb \in 0..MaxInputBodies,
        polys \in {<<>>, <<"polygon">>}}

\* simulator_bindings.add_user_input_to_scene: a new scene, the given one plus
\* the bodies made of the user input.
AddUserInputBodies(scene, ui) ==
    [live |-> TRUE,
     bodies |-> scene.bodies,
     user_input_bodies |->
        scene.user_input_bodies
        \o (IF Len(ui.flattened_point_list) > 0 THEN <<"stroke">> ELSE <<>>)
        \o ui.polygons \o ui.balls]

\* A variant that hands out the cached Task object itself.
AliasCopy(objs, ref) == [ref |-> ref, objs |-> objs]
\* copy.copy(task): a new Task object with the same fields
CopyCopy(objs, ref) ==
    [ref |-> TempTaskRef, objs |-> [objs EXCEPT ![TempTaskRef] = objs[ref]]]

NewSceneRef(scs) == CHOOSE r \in SceneRefs : ~scs[r].live /\ \A q \in 1..(r - 1) : scs[q].live

\* What is left of the heaps once the call has returned: the copy of the task is
\* dropped, and so is every scene no task refers to.
Collect(objs, scs) ==
    LET kept == [r \in TaskRefs |-> IF r = TempTaskRef THEN DeadTask ELSE objs[r]]
        referenced == {kept[r].scene : r \in {q \in TaskRefs : kept[q].live}}
    IN  [objs |-> kept,
         scenes |-> [r \in SceneRefs |-> IF r \in referenced THEN scs[r] ELSE FreeScene]]

\* task.scene = add_user_input_to_scene(task.scene, user_input, ...);
\* simulate_task(task, ...), on the Task object ref of the heap objs
AddInputAndSimulate(objs, scs, ref, task_index, ui, keep_space) ==
    LET base == scs[objs[ref].scene]
        new_ref == NewSceneRef(scs)
        scs2 == [scs EXCEPT ![new_ref] = AddUserInputBodies(base, ui)]
        objs2 == [objs EXCEPT ![ref].scene = new_ref]
        after == Collect(objs2, scs2)
    IN  [objs |-> after.objs, scenes |-> after.scenes,
         sim |-> [task_index |-> task_index, base |-> base,
                  simulated |-> scs2[objs2[ref].scene],
                  keep_space_around_bodies |-> keep_space]]

\* simulate_task_with_input(task, user_input, steps, stride, keep_space_around_bodies)
SimulateTaskWithInputResult(objs, scs, task_index, ui, keep_space) ==
    LET cp == CopyCopy(objs, task_index)
    IN  AddInputAndSimulate(cp.objs, scs, cp.ref, task_index, ui, keep_space)

\* ServiceHandler._simulate_task_meta, the user input as DEMO mode cuts it
DemoUserInput(cfg, ui) ==
    IF cfg.mode = DEMO_MODE
    THEN UserInput(<<>>, IF Len(ui.balls) > 0 THEN Take(ui.balls, cfg.max_balls)
                         ELSE ui.balls, <<>>)
    ELSE ui

\* ServiceHandler.simulate_task_by_id
SimulateTaskByIdResult(objs, scs, cfg, task_index, ui, dilate) ==
    LET cp == CopyCopy(objs, task_index)
    IN  AddInputAndSimulate(cp.objs, scs, cp.ref, task_index,
                            DemoUserInput(cfg, ui), dilate)

NoSim == [task_index |-> 0, base |-> FreeScene, simulated |-> FreeScene,
          keep_space_around_bodies |-> FALSE]

Config(mode) ==
    [mode |-> mode, max_balls |-> IF mode = DEMO_MODE THEN MAX_BALLS_DEMO_MODE ELSE 0]

TaskIdle ==
    /\ task_cache = [r \in TaskRefs |->
                        IF r = TempTaskRef THEN DeadTask
                        ELSE [live |-> TRUE, taskId |-> TaskId(r), scene |-> r]]
    /\ scenes = [r \in SceneRefs |->
                    IF r <= NumTasks THEN OriginalScene(r) ELSE FreeScene]
    /\ last_sim = NoSim

SimulateTaskWithInput ==
    /\ \E task_index \in 1..NumTasks, ui \in TaskUserInputs, keep_space \in BOOLEAN :
          \E r \in {SimulateTaskWithInputResult(task_cache, scenes, task_index, ui,
                                                 keep_space)} :
              /\ task_cache' = r.objs
              /\ scenes' = r.scenes
              /\ last_sim' = r.sim
    /\ UNCHANGED <<config, simVars, evalVars, extVars>>

SimulateTaskById ==
    /\ \E task_index \in 1..NumTasks, ui \in TaskUserInputs, dilate \in BOOLEAN :
          \E r \in {SimulateTaskByIdResult(task_cache, scenes, config, task_index, ui,
                                            dilate)} :
              /\ task_cache' = r.objs
              /\ scenes' = r.scenes
              /\ last_sim' = r.sim
    /\ UNCHANGED <<config, simVars, evalVars, extVars>>

(***************************************************************************)
(* metrics.py: Evaluator                                                   *)
(***************************************************************************)
MAX_TEST_ATTEMPTS == 100

\* What callers pass as a status: an int, or the int written as a str.
StatusLike(kind, value) == [kind |-> kind, value |-> value]
StatusLikes ==
    {StatusLike("int", v) : v \in {NOT_SOLVED, INVALID_INPUT, SOLVED, STABLY_SOLVED}}
    \cup {StatusLike("str", v) : v \in {INVALID_INPUT, UNSTABLY_SOLVED}}

\* _normalize_sumulation_status: int(status) for a str, then SimulationStatus(...)
NormalizeSimulationStatus(status) == status.value

NoEvalCall == [task_index |-> 0, status |-> StatusLike("int", INVALID_INPUT)]

Repeat(x, n) == [j \in 1..n |-> x]

RECURSIVE LogOfAttempts(_, _)
\* The log after attempts[i] solved attempts on task i, one task after the other.
LogOfAttempts(attempts, i) ==
    IF i = 0 THEN <<>>
    ELSE LogOfAttempts(attempts, i - 1) \o Repeat(<<TaskId(i), SOLVED>>, attempts[i])

\* A variant that answers False, instead of asserting, once a task is at its cap.
ReturnFalseMaybeLogAttempt(log, attempts, task_index, status) ==
    LET st == NormalizeSimulationStatus(status)
    IN  IF is_invalid(st) \/ attempts[task_index] >= MAX_TEST_ATTEMPTS
        THEN [ret |-> "False", log |-> log, attempts |-> attempts]
        ELSE [ret |-> "True", log |-> Append(log, <<TaskId(task_index), st>>),
              attempts |-> [attempts EXCEPT ![task_index] = @ + 1]]
\* A variant without the assertion on the number of attempts.
UncheckedMaybeLogAttempt(log, attempts, task_index, status) ==
    LET st == NormalizeSimulationStatus(status)
    IN  IF is_invalid(st)
        THEN [ret |-> "False", log |-> log, attempts |-> attempts]
        ELSE [ret |-> "True", log |-> Append(log, <<TaskId(task_index), st>>),
              attempts |-> [attempts EXCEPT ![task_index] = @ + 1]]
\* A variant that writes every attempt to the log and counts the valid ones only.
LogEveryAttempt(log, attempts, task_index, status) ==
    LET st == NormalizeSimulationStatus(status)
    IN  IF is_invalid(st)
        THEN [ret |-> "False", log |-> Append(log, <<TaskId(task_index), st>>),
              attempts |-> attempts]
        ELSE IF ~(attempts[task_index] < MAX_TEST_ATTEMPTS)
        THEN [ret |-> "AssertionError", log |-> log, attempts |-> attempts]
        ELSE [ret |-> "True", log |-> Append(log, <<TaskId(task_index), st>>),
              attempts |-> [attempts EXCEPT ![task_index] = @ + 1]]
\* Evaluator.maybe_log_attempt
MaybeLogAttemptResult(log, attempts, task_index, status) ==
    LET st == NormalizeSimulationStatus(status)
    IN  IF is_invalid(st)
        THEN [ret |-> "False", log |-> log, attempts |-> attempts]
        ELSE IF ~(attempts[task_index] < MAX_TEST_ATTEMPTS)
        THEN [ret |-> "AssertionError", log |-> log, attempts |-> attempts]
        ELSE [ret |-> "True", log |-> Append(log, <<TaskId(task_index), st>>),
              attempts |-> [attempts EXCEPT ![task_index] = @ + 1]]

\* Evaluator.get_attempts_for_task
get_attempts_for_task(attempts, task_index) == attempts[task_index]

EvalIdle ==
    /\ ev_log = <<>>
    /\ attempts_per_task_index = [i \in 1..NumTasks |-> 0]
    /\ ev_call = NoEvalCall
    /\ ev_ret = "None"
    /\ ev_calls = 0

MaybeLogAttempt ==
    /\ ev_calls < MaxEvalCalls
    /\ \E task_index \in 1..NumTasks, status \in StatusLikes :
          \E r \in {MaybeLogAttemptResult(ev_log, attempts_per_task_index, task_index,
                                           status)} :
              /\ ev_call' = [task_index |-> task_index, status |-> status]
              /\ ev_ret' = r.ret
              /\ ev_log' = r.log
              /\ attempts_per_task_index' = r.attempts
    /\ ev_calls' = ev_calls + 1
    /\ UNCHANGED <<simVars, taskVars, extVars>>

(***************************************************************************)
(* metrics.py: compute_metrics.  A simulation log is a sequence of         *)
(* (task id, status) pairs; the dicts of the code are functions over the   *)
(* task ids, with 0 for a key that is absent (no attempt, not solved).     *)
(***************************************************************************)
MetricsTaskIds == {TaskId(i) : i \in 1..NumTasks}

\* lines 292-296: statuses normalized, INVALID_INPUT entries dropped
KeepInvalidAttempts(raw) ==
    [k \in 1..Len(raw) |-> <<raw[k][1], NormalizeSimulationStatus(raw[k][2])>>]
NormalizedValidLog(raw) ==
    SelectSeq([k \in 1..Len(raw) |-> <<raw[k][1], NormalizeSimulationStatus(raw[k][2])>>],
              LAMBDA e : ~is_invalid(e[2]))

\* lines 301-305: one turn of the loop, on entry k of simulation_log
ScanAttempt(simulation_log, k, acc) ==
    LET task == simulation_log[k][1]
        status == simulation_log[k][2]
        n == acc.attempts[task] + 1
        first == acc.solved_at[task] = 0 /\ is_solved(status)
    IN  [attempts |-> [acc.attempts EXCEPT ![task] = n],
         solved_at |-> IF first THEN [acc.solved_at EXCEPT ![task] = n]
                       ELSE acc.solved_at,
         first_solution_points |->
             IF first THEN Append(acc.first_solution_points, k)
             ELSE acc.first_solution_points]

\* lines 298-305: attempts, solved_at and first_solution_points after the loop
\* has gone through entries lo .. hi of simulation_log, in order: the first
\* half of the entries, then, from the value s that leaves, the second half
RECURSIVE ScanAttempts(_, _, _, _)
ScanAttempts(simulation_log, lo, hi, acc) ==
    IF lo > hi THEN acc
    ELSE IF lo = hi THEN ScanAttempt(simulation_log, lo, acc)
    ELSE CHOOSE r \in {ScanAttempts(simulation_log, (lo + hi) \div 2 + 1, hi, s) :
                          s \in {ScanAttempts(simulation_log, lo, (lo + hi) \div 2, acc)}} :
             TRUE

\* sorted(solved_at.values()), one entry per group of itertools.groupby
RECURSIVE SortedSet(_)
SortedSet(S) ==
    IF S = {} THEN <<>>
    ELSE LET m == CHOOSE x \in S : \A y \in S : x <= y
         IN  <<m>> \o SortedSet(S \ {m})

\* while len(independent_solved_by) <= n: append the last entry
PadTo(solved_by, n) ==
    solved_by \o Repeat(solved_by[Len(solved_by)], Max2(0, n + 1 - Len(solved_by)))

\* lines 315-322: the loop over the groups j, j + 1, ..., with its break
RECURSIVE SolvedByGroups(_, _, _, _)
SolvedByGroups(solved_at, groups, j, solved_by) ==
    IF j > Len(groups) THEN solved_by
    ELSE IF groups[j] > MAX_TEST_ATTEMPTS THEN solved_by
    ELSE SolvedByGroups(solved_at, groups, j + 1,
             [PadTo(solved_by, groups[j]) EXCEPT ![groups[j] + 1] =
                 @ + Cardinality({t \in MetricsTaskIds : solved_at[t] = groups[j]})])

\* lines 313-324
IndependentSolvedBy(solved_at) ==
    PadTo(SolvedByGroups(solved_at,
                         SortedSet({solved_at[t] : t \in MetricsTaskIds} \ {0}),
                         1, <<0>>),
          MAX_TEST_ATTEMPTS)

\* lines 334-345: the returned dict (independent_solved_by_aucs, a weighted mean
\* of independent_solved_by alone, is left out)
MetricsOf(scan) ==
    [independent_solved_by |-> IndependentSolvedBy(scan.solved_at),
     global_solved_by |->
        [t \in {100, 1000, 100000} |->
            Cardinality({k \in 1..Len(scan.first_solution_points) :
                            scan.first_solution_points[k] <= t})],
     total_attempts |-> SumTo([i \in 1..NumTasks |-> scan.attempts[TaskId(i)]], NumTasks),
     total_solved |-> Len(scan.first_solution_points)]

ScanLog(simulation_log) ==
    ScanAttempts(simulation_log, 1, Len(simulation_log),
                 [attempts |-> [t \in MetricsTaskIds |-> 0],
                  solved_at |-> [t \in MetricsTaskIds |-> 0],
                  first_solution_points |-> <<>>])

compute_metrics(raw) ==
    CHOOSE m \in {MetricsOf(ScanLog(simulation_log)) :
                     simulation_log \in {NormalizedValidLog(raw)}} : TRUE

\* The logs compute_metrics is given: any short log, alone or after
\* MAX_TEST_ATTEMPTS - 1 or MAX_TEST_ATTEMPTS unsolved attempts on the first task.
LogEntries ==
    {<<t, StatusLike("int", v)>> : t \in MetricsTaskIds, v \in SimulationStatus}
LogsUpTo(n) == UNION {[1..l -> LogEntries] : l \in 0..n}
RawLogs ==
    {Repeat(<<TaskId(1), StatusLike("int", NOT_SOLVED)>>, n) \o tail :
        n \in {0, MAX_TEST_ATTEMPTS - 1, MAX_TEST_ATTEMPTS}, tail \in LogsUpTo(MaxLogLen)}

NoMetrics == [independent_solved_by |-> <<>>, global_solved_by |-> <<>>,
              total_attempts |-> 0, total_solved |-> 0]

MetricsIdle ==
    /\ raw_simulation_log = <<>>
    /\ metrics = NoMetrics

ComputeMetrics ==
    /\ metrics = NoMetrics
    /\ \E m \in {compute_metrics(raw_simulation_log)} : metrics' = m
    /\ UNCHANGED <<raw_simulation_log, exceptMetrics>>
(***************************************************************************)
(* eval_task_complexity.py and compute_solution_power.py: the evaluation   *)
(* files of one task script and the test that they are up to date.  A      *)
(* script is its content (by hash) and the version its build_task          *)
(* declares; the stats of an eval file are named by the hash of the script *)
(* they were computed from.                                                *)
(***************************************************************************)
ScriptHashes == 1..NumScriptTexts
ScriptVersions == {"1", "2"}
\* eval_task_complexity.VERSION and an older one
VERSION == "8"
EvaluatorVersions == {"7", VERSION}

TaskScript(hash, version) == [hash |-> hash, version |-> version]

NoEvalFiles == [exists |-> FALSE, evaluator_version |-> "", task_script_hash |-> 0,
                task_script_version |-> "", stats_of |-> 0]
NoSolutionPower == [exists |-> FALSE, evaluator_version |-> "", task_script_version |-> ""]
NotLoaded == [kind |-> "none", stats_of |-> 0]

\* does_eval_stats_need_update
does_eval_stats_need_update(script, ef) ==
    IF ef.exists
    THEN IF ef.evaluator_version /= VERSION THEN TRUE
         ELSE IF script.version /= ef.task_script_version THEN TRUE
         ELSE FALSE
    ELSE TRUE

\* compute_solution_power.does_solution_power_need_update (VERSION of that
\* module is the default of the key it reads)
does_solution_power_need_update(ef, sp) ==
    IF ~ef.exists THEN FALSE
    ELSE IF sp.exists
    THEN IF sp.evaluator_version /= ef.evaluator_version THEN TRUE
         ELSE IF sp.task_script_version /= ef.task_script_version THEN TRUE
         ELSE FALSE
    ELSE TRUE

\* does_evaluation_need_update
does_evaluation_need_update(script, ef, sp) ==
    does_eval_stats_need_update(script, ef) \/ does_solution_power_need_update(ef, sp)

\* save_solution_power(template_id, eval_meta, ...)
SavedSolutionPower(meta) ==
    [exists |-> TRUE, evaluator_version |-> meta.evaluator_version,
     task_script_version |-> meta.task_script_version]

\* main, lines 598-605: the meta of an evaluation of the script
MetaOf(script) ==
    [exists |-> TRUE, evaluator_version |-> VERSION, task_script_hash |-> script.hash,
     task_script_version |-> script.version, stats_of |-> script.hash]

\* maybe_load_evaluation: None, or the stats of the eval file
maybe_load_evaluation(script, ef, sp) ==
    IF does_evaluation_need_update(script, ef, sp)
    THEN [kind |-> "None", stats_of |-> 0]
    ELSE [kind |-> "stats", stats_of |-> ef.stats_of]

\* main(template_id, log_dir, force, interactive): the files it leaves
MainResult(script, ef, sp, force, interactive) ==
    IF ~does_eval_stats_need_update(script, ef) /\ ~interactive /\ ~force
    THEN \* maybe_recompute_solution_power
         [eval_files |-> ef,
          solution_power |-> IF does_solution_power_need_update(ef, sp)
                             THEN SavedSolutionPower(ef) ELSE sp]
    ELSE [eval_files |-> IF interactive THEN ef ELSE MetaOf(script),
          solution_power |-> SavedSolutionPower(MetaOf(script))]

EvalFilesIdle ==
    /\ task_script = TaskScript(1, "1")
    /\ eval_files = NoEvalFiles
    /\ solution_power = NoSolutionPower
    /\ loaded = NotLoaded

\* The task script is edited: its content changes, and its author may or may
\* not give it a new version.
EditTaskScript ==
    /\ \E h \in ScriptHashes \ {task_script.hash}, v \in ScriptVersions :
          task_script' = TaskScript(h, v)
    /\ loaded' = NotLoaded
    /\ UNCHANGED <<eval_files, solution_power, exceptEvalFiles>>

Main ==
    /\ \E force \in BOOLEAN, interactive \in BOOLEAN :
          \E r \in {MainResult(task_script, eval_files, solution_power, force,
                               interactive)} :
              /\ eval_files' = r.eval_files
              /\ solution_power' = r.solution_power
    /\ loaded' = NotLoaded
    /\ UNCHANGED <<task_script, exceptEvalFiles>>

MaybeLoadEvaluation ==
    /\ loaded' = maybe_load_evaluation(task_script, eval_files, solution_power)
    /\ UNCHANGED <<task_script, eval_files, solution_power, exceptEvalFiles>>
(***************************************************************************)
(* creator/shapes.py: polygons from vertex lists.  A point is <<x, y>>.    *)
(***************************************************************************)
GridPoints == (0..GridMax) \X (0..GridMax)

\* The exterior product a x b of a = p3 - p2 and b = p1 - p2.
ExteriorProduct(p1, p2, p3) ==
    (p3[1] - p2[1]) * (p1[2] - p2[2]) - (p3[2] - p2[2]) * (p1[1] - p2[1])

\* is_valid_convex_polygon(points): every three consecutive points of
\* points + points[:2] make a positive exterior product.
is_valid_convex_polygon(points) ==
    IF Len(points) < 3 THEN FALSE
    ELSE \A i \in 1..Len(points) :
            ExteriorProduct((points \o SubSeq(points, 1, 2))[i],
                            (points \o SubSeq(points, 1, 2))[i + 1],
                            (points \o SubSeq(points, 1, 2))[i + 2]) > 0

\* vertices_to_polygon(vertices): the shape, or the failed assert
vertices_to_polygon(vs) ==
    IF is_valid_convex_polygon(vs)
    THEN [kind |-> "Shape", polygon |-> vs]
    ELSE [kind |-> "AssertionError", polygon |-> <<>>]

NoPolygon == [kind |-> "none", polygon |-> <<>>]

VertexLists == UNION {[1..n -> GridPoints] : n \in 0..MaxVertices}

PolygonIdle ==
    /\ poly_vertices = <<>>
    /\ polygon = NoPolygon

VerticesToPolygon ==
    /\ polygon = NoPolygon
    /\ polygon' = vertices_to_polygon(poly_vertices)
    /\ UNCHANGED <<poly_vertices, exceptPolygon>>
(***************************************************************************)
(* creator/shapes.py: the shape builders' diameter and its inverse.  A     *)
(* length is a whole number of units, PixelUnits of them to the pixel; a   *)
(* scale is a whole number of 1/ScaleUnits, so that the scales of Scales   *)
(* give every builder sizes that are whole units.  A diameter is kept by   *)
(* its square, which is a whole number where the diameter itself is not,   *)
(* and math.sqrt is exact wherever its result is a whole number of units.  *)
(***************************************************************************)
PixelUnits == 50 * ScaleFine
ScaleUnits == SCENE_WIDTH * PixelUnits

ShapeBuilders == {"ball", "box", "bar", "standingsticks", "jar"}

\* The scales k / ScaleUnits in 0..1 at which a jar's width (height / 1.2),
\* base width (0.8 width) and half rim are whole units.
Scales == {k \in 0..ScaleUnits : k % 12 = 0}

RECURSIVE SqrtBetween(_, _, _)
SqrtBetween(n, lo, hi) ==
    IF lo >= hi THEN lo
    ELSE IF ((lo + hi + 1) \div 2) * ((lo + hi + 1) \div 2) <= n
         THEN SqrtBetween(n, (lo + hi + 1) \div 2, hi)
         ELSE SqrtBetween(n, lo, (lo + hi + 1) \div 2 - 1)

\* math.sqrt on squares of whole numbers (rounded down on other numbers)
Sqrt(n) == SqrtBetween(n, 0, Min2(n, 46340))

\* Ball.SCALE_RANGE, Box.SCALE_RANGE, ... in units
SCALE_RANGE(builder) ==
    IF builder = "ball" THEN <<0, (SCENE_WIDTH * PixelUnits) \div 2>>
    ELSE <<0, SCENE_WIDTH * PixelUnits>>

\* Bar.BAR_HEIGHT, StandingSticks.BAR_HEIGHT = SCENE_WIDTH / 50.
BAR_HEIGHT == (SCENE_WIDTH * PixelUnits) \div 50

\* Ball.RASTERIZATION_BUFFER = 0.5
RASTERIZATION_BUFFER == PixelUnits \div 2

\* Jar.BASE_RATIO = 0.8 and Jar.WIDTH_RATIO = 1. / 1.2 as fractions
BASE_RATIO == <<4, 5>>
WIDTH_RATIO == <<5, 6>>

\* int(radius) of a non-negative radius: whole pixels
IntPixels(radius) == (radius \div PixelUnits) * PixelUnits

\* _interpolate(scale_range, scale)
Interpolate(scale_range, scale) ==
    ((ScaleUnits - scale) * scale_range[1] + scale * scale_range[2]) \div ScaleUnits

\* _inverse_interpolate(scale_range, interpolated_value)
InverseInterpolate(scale_range, interpolated_value) ==
    ((interpolated_value - Min2(scale_range[1], scale_range[2])) * ScaleUnits)
        \div Max2(scale_range[1] - Min2(scale_range[1], scale_range[2]),
                  scale_range[2] - Min2(scale_range[1], scale_range[2]))

\* cls.default_sizes(scale): the keyword arguments of _build and _diameter.
\* Jar.thickness_from_height takes math.log(height), which raises at 0; the
\* thickness itself plays no part in a diameter.
default_sizes(builder, scale) ==
    CASE builder = "ball" ->
           [kind |-> "sizes", radius |-> Interpolate(SCALE_RANGE(builder), scale)]
      [] builder = "box" ->
           [kind |-> "sizes", height |-> Interpolate(SCALE_RANGE(builder), scale),
            width |-> Interpolate(SCALE_RANGE(builder), scale)]
      [] builder \in {"bar", "standingsticks"} ->
           [kind |-> "sizes", width |-> Interpolate(SCALE_RANGE(builder), scale),
            height |-> BAR_HEIGHT]
      [] builder = "jar" ->
           IF Interpolate(SCALE_RANGE(builder), scale) = 0
           THEN [kind |-> "ValueError"]
           ELSE [kind |-> "sizes",
                 height |-> Interpolate(SCALE_RANGE(builder), scale),
                 width |-> (Interpolate(SCALE_RANGE(builder), scale) * WIDTH_RATIO[1])
                               \div WIDTH_RATIO[2],
                 base_width |->
                     (((Interpolate(SCALE_RANGE(builder), scale) * WIDTH_RATIO[1])
                           \div WIDTH_RATIO[2]) * BASE_RATIO[1]) \div BASE_RATIO[2]]

\* cls._diameter(**kwargs), squared
DiameterSquared(builder, sizes) ==
    CASE builder = "ball" ->
           (2 * (IntPixels(sizes.radius) + RASTERIZATION_BUFFER))
               * (2 * (IntPixels(sizes.radius) + RASTERIZATION_BUFFER))
      [] builder \in {"box", "bar", "standingsticks"} ->
           sizes.width * sizes.width + sizes.height * sizes.height
      [] builder = "jar" ->
           ((sizes.width - sizes.base_width) \div 2 + sizes.base_width)
               * ((sizes.width - sizes.base_width) \div 2 + sizes.base_width)
             + sizes.height * sizes.height

NoDiameter == [kind |-> "none", squared |-> 0]
NoScale == [kind |-> "none", scale |-> 0]

\* cls.diameter(scale)
diameter(builder, scale) ==
    IF default_sizes(builder, scale).kind = "ValueError"
    THEN [kind |-> "ValueError", squared |-> 0]
    ELSE [kind |-> "diameter",
          squared |-> DiameterSquared(builder, default_sizes(builder, scale))]

RECURSIVE GCD(_, _)
GCD(a, b) == IF b = 0 THEN a ELSE GCD(b, a % b)

\* A fraction <<numerator, denominator>> in lowest terms.
Reduced(frac) == <<frac[1] \div GCD(frac[1], frac[2]), frac[2] \div GCD(frac[1], frac[2])>>

\* Jar.diameter_to_default_scale: base_to_width_ratio =
\* (1.0 - BASE_RATIO) / 2.0 + BASE_RATIO
BaseToWidthRatio == Reduced(<<BASE_RATIO[2] + BASE_RATIO[1], 2 * BASE_RATIO[2]>>)

\* width_to_height_ratio = base_to_width_ratio * WIDTH_RATIO
WidthToHeightRatio ==
    Reduced(<<BaseToWidthRatio[1] * WIDTH_RATIO[1], BaseToWidthRatio[2] * WIDTH_RATIO[2]>>)

\* 1 + width_to_height_ratio ** 2
JarRatioSquared ==
    <<WidthToHeightRatio[2] * WidthToHeightRatio[2]
        + WidthToHeightRatio[1] * WidthToHeightRatio[1],
      WidthToHeightRatio[2] * WidthToHeightRatio[2]>>

\* A variant of diameter_to_default_scale in which every polygon builder
\* inherits Box.diameter_to_default_scale.
BoxScaleForPolygons(builder, squared) ==
    IF builder = "ball"
    THEN InverseInterpolate(SCALE_RANGE(builder),
                            Sqrt(squared) \div 2 - RASTERIZATION_BUFFER)
    ELSE InverseInterpolate(SCALE_RANGE(builder), Sqrt(squared \div 2))

\* cls.diameter_to_default_scale(diameter), from the diameter's square
diameter_to_default_scale(builder, squared) ==
    CASE builder = "ball" ->
           InverseInterpolate(SCALE_RANGE(builder),
                              Sqrt(squared) \div 2 - RASTERIZATION_BUFFER)
      [] builder = "box" ->
           InverseInterpolate(SCALE_RANGE(builder), Sqrt(squared \div 2))
      [] builder \in {"bar", "standingsticks"} ->
           InverseInterpolate(SCALE_RANGE(builder),
                              Sqrt(squared - BAR_HEIGHT * BAR_HEIGHT))
      [] builder = "jar" ->
           InverseInterpolate(SCALE_RANGE(builder),
                              Sqrt((squared \div JarRatioSquared[1]) * JarRatioSquared[2]))

ShapeIdle ==
    /\ shape_builder = "box"
    /\ shape_scale = 0
    /\ shape_diameter = NoDiameter
    /\ diameter_scale = NoScale
    /\ rebuilt_diameter = NoDiameter

\* builder.diameter(scale), as _add_body_from_builder takes it
Diameter ==
    /\ shape_diameter = NoDiameter
    /\ shape_diameter' = diameter(shape_builder, shape_scale)
    /\ UNCHANGED <<shape_builder, shape_scale, diameter_scale, rebuilt_diameter, exceptShape>>

\* builder.build(diameter=...), its first step: the scale of the diameter
DiameterToDefaultScale ==
    /\ shape_diameter.kind = "diameter"
    /\ diameter_scale = NoScale
    /\ diameter_scale' =
          [kind |-> "scale",
           scale |-> diameter_to_default_scale(shape_builder, shape_diameter.squared)]
    /\ UNCHANGED <<shape_builder, shape_scale, shape_diameter, rebuilt_diameter, exceptShape>>

\* featurized_objects_vector_to_scene: the body rebuilt from the diameter,
\* and the diameter of its sizes
Rebuild ==
    /\ diameter_scale.kind = "scale"
    /\ rebuilt_diameter = NoDiameter
    /\ rebuilt_diameter' = diameter(shape_builder, diameter_scale.scale)
    /\ UNCHANGED <<shape_builder, shape_scale, shape_diameter, diameter_scale, exceptShape>>
(***************************************************************************)
(* creator/creator.py: TaskCreator.  A Body wrapper and its thrift body    *)
(* are two objects; the wrapper holds the reference of its thrift body.    *)
(* Colours are named as in constants.ROLE_TO_COLOR_ID.                     *)
(***************************************************************************)
\* _role_to_color_name(role)
RoleToColorName(role) ==
    CASE role = "STATIC" -> "black"
      [] role = "STATIC_OBJECT" -> "purple"
      [] role = "DYNAMIC" -> "gray"
      [] role = "DYNAMIC_SUBJECT" -> "blue"
      [] role = "DYNAMIC_OBJECT" -> "green"

STATIC_COLORS == {"black", "purple"}
DYNAMIC_COLORS == {"gray", "green", "blue"}

\* Body.__init__: the wrapper, with the reference of the thrift body it makes
Body(ref, dynamic, object_type) ==
    [thrift |-> ref, dynamic |-> dynamic, object_type |-> object_type,
     color |-> IF dynamic THEN RoleToColorName("DYNAMIC") ELSE RoleToColorName("STATIC")]

\* body._thrift_body as scene.bodies holds it
ThriftBody(body) ==
    [ref |-> body.thrift,
     bodyType |-> IF body.dynamic THEN "DYNAMIC" ELSE "STATIC",
     color |-> body.color]

\* Body.set_color where the colour is allowed: wrapper and thrift body
SetColor(lists, i, color) ==
    [body_list |-> [lists.body_list EXCEPT ![i].color = color],
     scene_bodies |-> [lists.scene_bodies EXCEPT ![i].color = color]]

\* Body.description
Description(body) ==
    IF body.object_type \in {"bottom-wall", "left-wall", "top-wall", "right-wall"}
    THEN <<body.object_type, "wall">>
    ELSE <<body.color, body.object_type>>

\* A variant of the two appends that forgets scene.bodies.
AppendToBodyListOnly(lists, body) ==
    [body_list |-> Append(lists.body_list, body),
     scene_bodies |-> lists.scene_bodies]

\* self.scene.bodies.append(body._thrift_body); self.body_list.append(body)
AppendBody(lists, body) ==
    [body_list |-> Append(lists.body_list, body),
     scene_bodies |-> Append(lists.scene_bodies, ThriftBody(body))]

\* _add_body_from_builder(builder, body_type, dynamic, ...)
AddBodyFromBuilder(lists, body_type, dynamic) ==
    AppendBody(lists, Body(Len(lists.body_list) + 1, dynamic, body_type))

\* _add_wall(side): a static box, then set_color and set_object_type
AddWall(lists, side) ==
    AppendBody(lists, Body(Len(lists.body_list) + 1, FALSE, side))

\* TaskCreator.__init__: the lists with the four walls
InitialLists ==
    AddWall(AddWall(AddWall(AddWall([body_list |-> <<>>, scene_bodies |-> <<>>],
                                    "bottom-wall"), "left-wall"), "top-wall"),
            "right-wall")

\* TaskCreator.__init__: the task before update_task
InitialTask == [bodyId1 |-> -1, bodyId2 |-> -1, relationships |-> <<"NONE">>,
                description |-> "unset"]

\* add(string_arg): '<dynamic|static> [<color>] <shape>'; the body is in
\* both lists before set_color can fail
AddResult(lists, dynamic_static, color, shape) ==
    IF shape \notin ShapeBuilders THEN [outcome |-> "AssertionError", lists |-> lists]
    ELSE IF color = "None"
    THEN [outcome |-> "ok",
          lists |-> AddBodyFromBuilder(lists, shape, dynamic_static = "dynamic")]
    ELSE IF color \in (IF dynamic_static = "dynamic" THEN DYNAMIC_COLORS ELSE STATIC_COLORS)
    THEN [outcome |-> "ok",
          lists |-> SetColor(AddBodyFromBuilder(lists, shape, dynamic_static = "dynamic"),
                             Len(lists.body_list) + 1, color)]
    ELSE [outcome |-> "AssertionError",
          lists |-> AddBodyFromBuilder(lists, shape, dynamic_static = "dynamic")]

\* add_convex_polygon(vertices, dynamic) and add_multipolygons(polygons,
\* dynamic): every polygon goes through vertices_to_polygon (moved by its
\* centroid, which turns no corner) before anything is appended
AddPolygonsResult(lists, polygons, object_type, dynamic) ==
    IF \A k \in 1..Len(polygons) : vertices_to_polygon(polygons[k]).kind = "Shape"
    THEN [outcome |-> "ok",
          lists |-> AppendBody(lists, Body(Len(lists.body_list) + 1, dynamic, object_type))]
    ELSE [outcome |-> "AssertionError", lists |-> lists]

\* body_list.index(body): zero-based position of the wrapper
IndexOf(list, ref) == (CHOOSE i \in 1..Len(list) : list[i].thrift = ref) - 1

\* _recolor_objects(task_body1, task_body2): the colour of body i
RecolorOf(body, task_body1, task_body2) ==
    IF body.object_type \in {"bottom-wall", "left-wall", "top-wall", "right-wall"}
    THEN RoleToColorName("STATIC")
    ELSE IF body.dynamic
    THEN IF body.thrift = task_body1 THEN RoleToColorName("DYNAMIC_OBJECT")
         ELSE IF body.thrift = task_body2 THEN RoleToColorName("DYNAMIC_SUBJECT")
         ELSE RoleToColorName("DYNAMIC")
    ELSE IF body.thrift \in {task_body1, task_body2}
         THEN RoleToColorName("STATIC_OBJECT")
         ELSE RoleToColorName("STATIC")

\* A variant of _recolor_objects that leaves every colour as it is.
KeepColors(lists, task_body1, task_body2) == lists

\* _recolor_objects(task_body1, task_body2)
RecolorObjects(lists, task_body1, task_body2) ==
    [body_list |->
        [i \in 1..Len(lists.body_list) |->
            [lists.body_list[i] EXCEPT
                !.color = RecolorOf(lists.body_list[i], task_body1, task_body2)]],
     scene_bodies |->
        [i \in 1..Len(lists.scene_bodies) |->
            [lists.scene_bodies[i] EXCEPT
                !.color = RecolorOf(lists.body_list[i], task_body1, task_body2)]]]

\* update_task, lines 271-278: some other body has the description of a
\* task body
AmbiguousDescription(list, bodyId1, bodyId2) ==
    \E id \in {bodyId1, bodyId2} : \E i \in 1..Len(list) :
        /\ list[i].thrift /= list[id + 1].thrift
        /\ Description(list[i]) = Description(list[id + 1])

\* update_task after its two asserts and the LEFT_OF swap: body1 and body2
\* are references of wrappers in body_list
UpdateTaskSwapped(lists, task, body1, body2, relationships, description) ==
    IF description = "None"
    THEN [outcome |->
              IF AmbiguousDescription(RecolorObjects(lists, body1, body2).body_list,
                                      IndexOf(lists.body_list, body1),
                                      IndexOf(lists.body_list, body2))
              THEN "AssertionError" ELSE "ok",
          lists |-> RecolorObjects(lists, body1, body2),
          task |-> [bodyId1 |-> IndexOf(lists.body_list, body1),
                    bodyId2 |-> IndexOf(lists.body_list, body2),
                    relationships |-> relationships,
                    description |->
                        IF AmbiguousDescription(
                               RecolorObjects(lists, body1, body2).body_list,
                               IndexOf(lists.body_list, body1),
                               IndexOf(lists.body_list, body2))
                        THEN task.description ELSE "generated"],
          task_bodies |-> <<body1, body2>>]
    ELSE [outcome |-> "ok",
          lists |-> lists,
          task |-> [bodyId1 |-> IndexOf(lists.body_list, body1),
                    bodyId2 |-> IndexOf(lists.body_list, body2),
                    relationships |-> relationships,
                    description |-> description],
          task_bodies |-> <<body1, body2>>]

\* update_task(body1, body2, relationships, description=None)
UpdateTaskResult(lists, task, old_bodies, body1, body2, relationships, description) ==
    IF ~(lists.body_list[IndexOf(lists.body_list, body1) + 1].dynamic
           \/ lists.body_list[IndexOf(lists.body_list, body2) + 1].dynamic)
         \/ Len(relationships) /= 1
    THEN [outcome |-> "AssertionError", lists |-> lists, task |-> task,
          task_bodies |-> old_bodies]
    ELSE IF relationships[1] = "LEFT_OF"
    THEN UpdateTaskSwapped(lists, task, body2, body1, <<"RIGHT_OF">>, description)
    ELSE UpdateTaskSwapped(lists, task, body1, body2, relationships, description)

NoCreatorCall == [op |-> "none", outcome |-> "ok", body1 |-> 0, body2 |-> 0,
                  relationships |-> <<>>, description |-> "None"]

CreatorIdle ==
    /\ body_list = InitialLists.body_list
    /\ scene_bodies = InitialLists.scene_bodies
    /\ creator_task = InitialTask
    /\ task_bodies = <<0, 0>>
    /\ creator_ret = NoCreatorCall

CreatorLists == [body_list |-> body_list, scene_bodies |-> scene_bodies]

\* Vertex lists given to add_convex_polygon and add_multipolygons.
PolygonInputs ==
    {<<<<0, 0>>, <<1, 0>>, <<0, 1>>>>, <<<<0, 0>>, <<0, 1>>, <<1, 0>>>>}

\* Positions of the bodies given to update_task: the bottom wall (one wall is
\* as good as another) and the bodies added.
TaskBodyChoices(list) == {1} \cup (5..Len(list))

\* C.add('dynamic green box'), C.add('static ball'), ...
Add ==
    /\ Len(body_list) < 4 + MaxBodies
    /\ \E dynamic_static \in {"dynamic", "static"}, color \in {"None", "green", "black"},
          shape \in {"box", "poly"} :
          \E r \in {AddResult(CreatorLists, dynamic_static, color, shape)} :
              /\ body_list' = r.lists.body_list
              /\ scene_bodies' = r.lists.scene_bodies
              /\ creator_ret' = [NoCreatorCall EXCEPT !.op = "add", !.outcome = r.outcome]
    /\ UNCHANGED <<creator_task, task_bodies, exceptCreator>>

\* C.add_ball(...), and likewise C.add_box(...), C.add_jar(...),
\* C.add_default_box(...), ...: each is _add_body_from_builder with its type
AddFromBuilder ==
    /\ Len(body_list) < 4 + MaxBodies
    /\ \E body_type \in {"ball"}, dynamic \in BOOLEAN :
          \E r \in {AddBodyFromBuilder(CreatorLists, body_type, dynamic)} :
              /\ body_list' = r.body_list
              /\ scene_bodies' = r.scene_bodies
    /\ creator_ret' = [NoCreatorCall EXCEPT !.op = "add_body"]
    /\ UNCHANGED <<creator_task, task_bodies, exceptCreator>>

\* C.add_convex_polygon(vertices, dynamic)
AddConvexPolygon ==
    /\ Len(body_list) < 4 + MaxBodies
    /\ \E vs \in PolygonInputs, dynamic \in BOOLEAN :
          \E r \in {AddPolygonsResult(CreatorLists, <<vs>>, "poly", dynamic)} :
              /\ body_list' = r.lists.body_list
              /\ scene_bodies' = r.lists.scene_bodies
              /\ creator_ret' = [NoCreatorCall EXCEPT !.op = "add_convex_polygon",
                                                      !.outcome = r.outcome]
    /\ UNCHANGED <<creator_task, task_bodies, exceptCreator>>

\* C.add_multipolygons(polygons, dynamic)
AddMultipolygons ==
    /\ Len(body_list) < 4 + MaxBodies
    /\ \E vs2 \in PolygonInputs, dynamic \in BOOLEAN :
          \E r \in {AddPolygonsResult(CreatorLists, <<<<<<0, 0>>, <<1, 0>>, <<0, 1>>>>, vs2>>,
                                      "compound", dynamic)} :
              /\ body_list' = r.lists.body_list
              /\ scene_bodies' = r.lists.scene_bodies
              /\ creator_ret' = [NoCreatorCall EXCEPT !.op = "add_multipolygons",
                                                      !.outcome = r.outcome]
    /\ UNCHANGED <<creator_task, task_bodies, exceptCreator>>

\* C.update_task(body1, body2, relationships[, description=...]) on two
\* bodies of this creator, until one call has written the task
UpdateTask ==
    /\ creator_task.bodyId1 = -1
    /\ \E b1 \in TaskBodyChoices(body_list), b2 \in TaskBodyChoices(body_list),
          relationships \in {<<"TOUCHING">>, <<"LEFT_OF">>, <<"TOUCHING", "INSIDE">>},
          description \in {"None", "given"} :
          \E r \in {UpdateTaskResult(CreatorLists, creator_task, task_bodies,
                                     body_list[b1].thrift, body_list[b2].thrift,
                                     relationships, description)} :
              /\ body_list' = r.lists.body_list
              /\ scene_bodies' = r.lists.scene_bodies
              /\ creator_task' = r.task
              /\ task_bodies' = r.task_bodies
              /\ creator_ret' = [op |-> "update_task", outcome |-> r.outcome,
                                 body1 |-> body_list[b1].thrift,
                                 body2 |-> body_list[b2].thrift,
                                 relationships |-> relationships,
                                 description |-> description]
    /\ UNCHANGED exceptCreator
(***************************************************************************)
(* action_simulator.py: the goals of an ActionSimulator.  The values of    *)
(* task_if.SpatialRelationship are those of the interface: NONE, ABOVE,    *)
(* LEFT_OF, RIGHT_OF, TOUCHING, INSIDE.                                    *)
(***************************************************************************)
\* Number of values of task_if.SpatialRelationship, numbered from 0
NumRelationships == 6
MAX_RELATION == (NumRelationships - 1) + 1
MAX_OBJECT_TYPE == 5

\* _encode_goal(task): the triple, or the failed assert
EncodeGoal(task) ==
    IF Len(task.relationships) /= 1 THEN <<"AssertionError">>
    ELSE IF ~(0 <= task.relationships[1] /\ task.relationships[1] < MAX_RELATION)
    THEN <<"AssertionError">>
    ELSE IF ~(0 <= Min2(task.bodyId1, MAX_OBJECT_TYPE - 1)
                /\ Min2(task.bodyId1, MAX_OBJECT_TYPE - 1) < MAX_OBJECT_TYPE)
    THEN <<"AssertionError">>
    ELSE IF ~(0 <= Min2(task.bodyId2, MAX_OBJECT_TYPE - 1)
                /\ Min2(task.bodyId2, MAX_OBJECT_TYPE - 1) < MAX_OBJECT_TYPE)
    THEN <<"AssertionError">>
    ELSE <<Min2(task.bodyId1, MAX_OBJECT_TYPE - 1), task.relationships[1],
           Min2(task.bodyId2, MAX_OBJECT_TYPE - 1)>>

\* _get_observations(tasks, action_mapper), its goals: an array of rows, or
\* the assert of the first task that fails
GetObservationsGoals(tasks) ==
    IF \E i \in 1..Len(tasks) : EncodeGoal(tasks[i]) = <<"AssertionError">>
    THEN [kind |-> "AssertionError", rows |-> <<>>]
    ELSE [kind |-> "array", rows |-> [i \in 1..Len(tasks) |-> EncodeGoal(tasks[i])]]

\* ActionSimulator.__init__(tasks, action_mapper, no_goals) and the goals
\* property after it
GoalsAfterInit(tasks, no_goals_arg) ==
    IF GetObservationsGoals(tasks).kind = "AssertionError"
    THEN GetObservationsGoals(tasks)
    ELSE IF no_goals_arg THEN [kind |-> "None", rows |-> <<>>]
    ELSE GetObservationsGoals(tasks)

GoalTask(bodyId1, bodyId2, rel) ==
    [bodyId1 |-> bodyId1, bodyId2 |-> bodyId2, relationships |-> <<rel>>]

\* Tasks as TaskCreator leaves them: body indices from 0 on, or -1 where
\* update_task never ran.
GoalTasks ==
    {GoalTask(b1, b2, rel) : b1 \in -1..MaxBodyId, b2 \in -1..MaxBodyId,
                             rel \in 0..(NumRelationships - 1)}

NoGoals == [kind |-> "unset", rows |-> <<>>]

GoalIdle ==
    /\ sim_tasks = <<>>
    /\ no_goals = TRUE
    /\ goals = NoGoals

\* ActionSimulator(tasks, action_mapper, no_goals)
ConstructActionSimulator ==
    /\ goals = NoGoals
    /\ goals' = GoalsAfterInit(sim_tasks, no_goals)
    /\ UNCHANGED <<sim_tasks, no_goals, exceptGoal>>
(***************************************************************************)
(* simulator.py and simulation.py: what a call returns, given the state    *)
(* the process keeps between calls: the DIAMETER_CENTERS cache and the     *)
(* shared EMPTY_USER_INPUT object.  Featurized objects are rows            *)
(* [x, y, angle, diameter, shape] in length units (not divided by the      *)
(* scene width), with the angle in quarter turns.  The scene of task i     *)
(* holds one jar, of a diameter that differs from task to task.            *)
(***************************************************************************)
\* The diameter of the jar of task i.
JarDiameter(i) == 30 * PixelUnits * i

\* The rows the engine packs for one time step: the jar of the task, then
\* the balls of the user input.
PackedFeaturizedObjects(task_index, ui, need_featurized_objects) ==
    IF ~need_featurized_objects THEN <<>>
    ELSE <<[x |-> 100 * PixelUnits, y |-> 50 * PixelUnits, angle |-> task_index % 2,
            diameter |-> JarDiameter(task_index), shape |-> "jar"]>>
         \o [k \in 1..Len(ui.balls) |->
                [x |-> ui.balls[k].position.x, y |-> ui.balls[k].position.y,
                 angle |-> 0, diameter |-> 2 * ui.balls[k].radius, shape |-> "ball"]]

\* Jar.center_of_mass(diameter=diameter), its y: a function of nothing but
\* the diameter, through the height of the jar built from it.
CenterOfMassY(d) ==
    Interpolate(SCALE_RANGE("jar"), diameter_to_default_scale("jar", d * d)) \div 3

\* A variant of _get_jar_offset that answers from the cache whatever diameter
\* the cached entry was computed for.
GetAnyCachedOffset(cache, d) ==
    IF DOMAIN cache /= {} THEN cache[CHOOSE k \in DOMAIN cache : TRUE]
    ELSE CenterOfMassY(d)

\* _get_jar_offset(featurized_object): the cached value if there is one
GetJarOffset(cache, d) ==
    IF d \in DOMAIN cache THEN cache[d] ELSE CenterOfMassY(d)

JarDiameters(rows) == {rows[k].diameter : k \in {j \in 1..Len(rows) : rows[j].shape = "jar"}}

\* DIAMETER_CENTERS after _get_jar_offset ran on every jar row
CacheAfter(cache, rows) ==
    [d \in DOMAIN cache \cup JarDiameters(rows) |-> GetJarOffset(cache, d)]

\* finalize_featurized_objects(featurized_objects), shift TO_CENTER_OF_MASS:
\* a jar moves by its offset along its own axis
FinalizeFeaturizedObjects(rows, cache) ==
    [k \in 1..Len(rows) |->
        IF rows[k].shape /= "jar" THEN rows[k]
        ELSE IF rows[k].angle = 0
        THEN [rows[k] EXCEPT !.y = @ + GetJarOffset(cache, rows[k].diameter)]
        ELSE [rows[k] EXCEPT !.x = @ - GetJarOffset(cache, rows[k].diameter)]]

\* phyre.simulator.magic_ponies(task, user_input, ...): what it returns and
\* the cache it leaves
PyMagicPonies(task_index, ui, stride, keep_space, need_images, need_featurized_objects, cache) ==
    [is_solved |->
        MagicPonies(task_index, ui, stride, keep_space, need_images,
                    need_featurized_objects).is_solved,
     had_occlusions |->
        MagicPonies(task_index, ui, stride, keep_space, need_images,
                    need_featurized_objects).had_occlusions,
     images |->
        MagicPonies(task_index, ui, stride, keep_space, need_images,
                    need_featurized_objects).images,
     objects |->
        FinalizeFeaturizedObjects(
            PackedFeaturizedObjects(task_index, ui, need_featurized_objects), cache),
     cache |->
        CacheAfter(cache, PackedFeaturizedObjects(task_index, ui, need_featurized_objects))]

\* simulate_action(task_index, action, ...) on the ball tier: its Simulation,
\* with the featurized objects the main magic_ponies call returned, and the
\* cache it leaves.  The neighbours of a stable call ask for no objects.
PySimulateAction(c, r, cache) ==
    [status |-> r.res.status,
     kind |-> r.res.kind,
     images |-> r.res.images,
     objects |->
        IF r.res.featurized_objects = "None" THEN <<"None">>
        ELSE FinalizeFeaturizedObjects(
                 PackedFeaturizedObjects(c.task_index, r.mapped.user_input, TRUE), cache),
     cache |->
        IF Len(r.calls) > 0 /\ r.calls[1].simulated
        THEN CacheAfter(cache,
                        PackedFeaturizedObjects(c.task_index, r.mapped.user_input,
                                                c.need_featurized_objects))
        ELSE cache]

\* The user input a caller holds after action_to_user_input: its own object,
\* or the shared EMPTY_USER_INPUT as it is now
HeldUserInput(m, shared) == IF m.is_valid THEN m.user_input ELSE shared

\* What a call returns in a process in the state (cache, shared)
PyResult(c, cache, shared) ==
    IF c.kind = "simulate_action"
    THEN PySimulateAction(c, SimulateActionResult("ball", c), cache)
    ELSE PyMagicPonies(c.task_index,
                       HeldUserInput(ActionToUserInput("ball", c.action), shared),
                       c.stride, KEEP_SPACE_AROUND_BODIES("ball"), c.need_images,
                       c.need_featurized_objects, cache)

EmptyCache == [d \in {} |-> 0]

NoPyCall == [kind |-> "none", task_index |-> 0, action |-> <<>>, need_images |-> FALSE,
             need_featurized_objects |-> FALSE, stride |-> 0, stable |-> FALSE]
NoPyResult == [kind |-> "none"]

RepeatIdle ==
    /\ DIAMETER_CENTERS = EmptyCache
    /\ shared_user_input = EMPTY_USER_INPUT
    /\ py_call = NoPyCall
    /\ py_result = NoPyResult

\* Actions of the ball tier: one that is valid and solves, one that is valid
\* and does not, one outside the unit box.
RepeatActions == {<<100 * Q, 50 * Q, Q + Sub + 1>>, <<4 * Q - 1, 128 * Q, 0>>, <<0 - 1, 50 * Q, 0>>}

\* simulate_action, or magic_ponies on the user input of an action (the
\* shared empty one where the action is invalid)
PyCall ==
    /\ \E kind \in {"simulate_action", "magic_ponies"}, task_index \in 1..NumTasks,
          action \in RepeatActions, need_images \in BOOLEAN,
          need_featurized_objects \in BOOLEAN, stable \in BOOLEAN :
          /\ kind = "magic_ponies" => ~stable
          /\ \E c \in {[kind |-> kind, task_index |-> task_index, action |-> action,
                        need_images |-> need_images,
                        need_featurized_objects |-> need_featurized_objects,
                        stride |-> 1, stable |-> stable]} :
             \E r \in {PyResult(c, DIAMETER_CENTERS, shared_user_input)} :
                /\ py_call' = c
                /\ py_result' = [r EXCEPT !.cache = EmptyCache]
                /\ DIAMETER_CENTERS' = r.cache
    /\ UNCHANGED <<shared_user_input, exceptRepeat>>
(***************************************************************************)
(* scripts/offline_simulation/save_partial_simulation.py: main, run by     *)
(* several processes over one cache folder.  An invocation tests for the   *)
(* result file, computes the statuses in a worker pool, and dumps them.    *)
(***************************************************************************)
MaxInvocations == 2
Invocations == 1..MaxInvocations

\* (num_actions, tier, task_id); the folder of the last task template was
\* never created.
SimKeys == {<<n, t, i>> : n \in {"100"}, t \in {"ball", "two_balls"}, i \in 1..(NumTasks + 1)}
SimDirExists(key) == key[3] <= NumTasks

\* sum(pool.map(worker, range(num_workers)), []): the statuses of the actions
\* of the tier on the task
AllStatuses(key) == <<key[2], key[3]>>

NoFile == <<>>
NoKey == <<>>

OfflineIdle ==
    /\ sim_paths = [k \in SimKeys |-> NoFile]
    /\ main_pc = [j \in Invocations |-> "not started"]
    /\ main_key = [j \in Invocations |-> NoKey]
    /\ sim_writers = [k \in SimKeys |-> <<>>]

\* main up to the end of the test: assert sim_dir.exists(), then
\* os.path.exists(sim_path)
MainCheck(j) ==
    /\ main_pc[j] = "not started"
    /\ \E key \in SimKeys :
          /\ main_key' = [main_key EXCEPT ![j] = key]
          /\ main_pc' = [main_pc EXCEPT ![j] =
                IF ~SimDirExists(key) THEN "AssertionError"
                ELSE IF sim_paths[key] /= NoFile THEN "already computed"
                ELSE "computing"]
    /\ UNCHANGED <<sim_paths, sim_writers, exceptOffline>>

\* joblib.dump(all_statuses, sim_path): opens the path for writing, whatever
\* is there
Dump(files, key, statuses) == [files EXCEPT ![key] = statuses]

\* main from the pool to the dump
MainWrite(j) ==
    /\ main_pc[j] = "computing"
    /\ sim_paths' = Dump(sim_paths, main_key[j], AllStatuses(main_key[j]))
    /\ sim_writers' = [sim_writers EXCEPT ![main_key[j]] = Append(@, j)]
    /\ main_pc' = [main_pc EXCEPT ![j] = "written"]
    /\ UNCHANGED <<main_key, exceptOffline>>
(***************************************************************************)
(* agents/offline_agents.py: MaxHeapWithSideLoad.  An entry is the list    *)
(* [-priority, key, is_valid], shared between the heap and key_to_entry    *)
(* and changed in place by pop_key; entries[r] is the list with identity   *)
(* r.  The heap is the array heapq keeps, with heapq's own sifting.        *)
(***************************************************************************)
MaxKeys == 2
MaxPriority == 1
MaxEntries == 3
HeapKeys == 1..MaxKeys
Priorities == 0..MaxPriority

\* list < list of two entries
EntryLess(e1, e2) ==
    \/ e1.neg_priority < e2.neg_priority
    \/ /\ e1.neg_priority = e2.neg_priority
       /\ \/ e1.key < e2.key
          \/ e1.key = e2.key /\ e1.is_valid < e2.is_valid

\* heap[pos] = x, positions counted from 0
PutAt(heap, pos, x) == [heap EXCEPT ![pos + 1] = x]

\* heapq._siftdown(heap, startpos, pos), carrying newitem
RECURSIVE SiftdownLoop(_, _, _, _, _)
SiftdownLoop(entries, heap, startpos, pos, newitem) ==
    IF pos > startpos /\ EntryLess(entries[newitem], entries[heap[((pos - 1) \div 2) + 1]])
    THEN SiftdownLoop(entries, PutAt(heap, pos, heap[((pos - 1) \div 2) + 1]), startpos,
                      (pos - 1) \div 2, newitem)
    ELSE PutAt(heap, pos, newitem)

Siftdown(entries, heap, startpos, pos) ==
    SiftdownLoop(entries, heap, startpos, pos, heap[pos + 1])

\* The smaller child of heapq._siftup's loop
SmallerChild(entries, heap, childpos, endpos) ==
    IF childpos + 1 < endpos /\ ~EntryLess(entries[heap[childpos + 1]], entries[heap[childpos + 2]])
    THEN childpos + 1
    ELSE childpos

\* heapq._siftup(heap, pos): the loop that bubbles the smaller child up; the
\* heap and the leaf position it ends at
RECURSIVE SiftupLoop(_, _, _, _)
SiftupLoop(entries, heap, pos, childpos) ==
    IF childpos < Len(heap)
    THEN SiftupLoop(entries,
                    PutAt(heap, pos, heap[SmallerChild(entries, heap, childpos, Len(heap)) + 1]),
                    SmallerChild(entries, heap, childpos, Len(heap)),
                    2 * SmallerChild(entries, heap, childpos, Len(heap)) + 1)
    ELSE <<heap, pos>>

Siftup(entries, heap, pos) ==
    Siftdown(entries,
             PutAt(SiftupLoop(entries, heap, pos, 2 * pos + 1)[1],
                   SiftupLoop(entries, heap, pos, 2 * pos + 1)[2], heap[pos + 1]),
             pos, SiftupLoop(entries, heap, pos, 2 * pos + 1)[2])

\* heapq.heapify(x): _siftup(x, i) for i in reversed(range(n // 2))
RECURSIVE HeapifyFrom(_, _, _)
HeapifyFrom(entries, heap, i) ==
    IF i < 0 THEN heap ELSE HeapifyFrom(entries, Siftup(entries, heap, i), i - 1)

Heapify(entries, heap) == HeapifyFrom(entries, heap, (Len(heap) \div 2) - 1)

\* heapq.heappush(heap, item)
Heappush(entries, heap, item) ==
    Siftdown(entries, Append(heap, item), 0, Len(heap))

\* heapq.heappop(heap) on a heap that is not empty: the item and the heap left
Heappop(entries, heap) ==
    IF Len(heap) = 1 THEN [item |-> heap[1], heap |-> <<>>]
    ELSE [item |-> heap[1],
          heap |-> Siftup(entries, PutAt(SubSeq(heap, 1, Len(heap) - 1), 0, heap[Len(heap)]), 0)]

\* The keys of a list of pairs in the order of a dict comprehension, the
\* pairs being given with ascending distinct keys
RECURSIVE KeysInOrder(_)
KeysInOrder(keys) ==
    IF keys = {} THEN <<>>
    ELSE <<CHOOSE k \in keys : \A other \in keys : k <= other>>
         \o KeysInOrder(keys \ {CHOOSE k \in keys : \A other \in keys : k <= other})

\* MaxHeapWithSideLoad(key_priority_pairs), pairs being a function from the
\* keys to their priorities
NewHeap(pairs) ==
    [entries |-> [r \in 1..Cardinality(DOMAIN pairs) |->
                     [neg_priority |-> 0 - pairs[KeysInOrder(DOMAIN pairs)[r]],
                      key |-> KeysInOrder(DOMAIN pairs)[r], is_valid |-> 1]],
     key_to_entry |-> [k \in DOMAIN pairs |->
                          CHOOSE r \in 1..Cardinality(DOMAIN pairs) :
                              KeysInOrder(DOMAIN pairs)[r] = k],
     heap |-> Heapify([r \in 1..Cardinality(DOMAIN pairs) |->
                          [neg_priority |-> 0 - pairs[KeysInOrder(DOMAIN pairs)[r]],
                           key |-> KeysInOrder(DOMAIN pairs)[r], is_valid |-> 1]],
                      [r \in 1..Cardinality(DOMAIN pairs) |-> r])]

\* __len__
HeapLen(h) == Cardinality(DOMAIN h.key_to_entry)

\* A function without one of its arguments: del d[key]
Del(d, key) == [k \in DOMAIN d \ {key} |-> d[k]]

\* A pop_key that forgets the key and leaves its entry as it is in the heap.
PopKeyUnmarked(h, key) ==
    IF key \notin DOMAIN h.key_to_entry THEN [kind |-> "KeyError", h |-> h]
    ELSE [kind |-> "pair", key |-> h.entries[h.key_to_entry[key]].key,
          priority |-> 0 - h.entries[h.key_to_entry[key]].neg_priority,
          h |-> [h EXCEPT !.key_to_entry = Del(@, key)]]

\* pop_key(key)
PopKey(h, key) ==
    IF key \notin DOMAIN h.key_to_entry THEN [kind |-> "KeyError", h |-> h]
    ELSE [kind |-> "pair", key |-> h.entries[h.key_to_entry[key]].key,
          priority |-> 0 - h.entries[h.key_to_entry[key]].neg_priority,
          h |-> [h EXCEPT !.key_to_entry = Del(@, key),
                          !.entries[h.key_to_entry[key]].is_valid = 0]]

\* push(key, priority)
Push(h, key, priority) ==
    IF key \in DOMAIN h.key_to_entry THEN [kind |-> "AssertionError", h |-> h]
    ELSE [kind |-> "None",
          h |-> [entries |-> Append(h.entries, [neg_priority |-> 0 - priority, key |-> key,
                                                is_valid |-> 1]),
                 key_to_entry |-> [k \in DOMAIN h.key_to_entry \cup {key} |->
                                      IF k = key THEN Len(h.entries) + 1
                                      ELSE h.key_to_entry[k]],
                 heap |-> Heappush(Append(h.entries, [neg_priority |-> 0 - priority,
                                                      key |-> key, is_valid |-> 1]),
                                   h.heap, Len(h.entries) + 1)]]

\* An entry list nothing refers to any more
Freed == [neg_priority |-> 0, key |-> 0, is_valid |-> 0]

\* heapq.heappop(self.heap) inside pop_max: the popped list is held by the
\* caller's locals alone
PopEntry(h) ==
    [h EXCEPT !.heap = Heappop(h.entries, h.heap).heap,
              !.entries[Heappop(h.entries, h.heap).item] = Freed]

\* pop_max(): pops until an entry is valid; heappop of an empty list raises
RECURSIVE PopMax(_)
PopMax(h) ==
    IF h.heap = <<>> THEN [kind |-> "IndexError", h |-> h]
    ELSE IF h.entries[Heappop(h.entries, h.heap).item].is_valid = 0
    THEN PopMax(PopEntry(h))
    ELSE IF h.entries[Heappop(h.entries, h.heap).item].key \notin DOMAIN h.key_to_entry
    THEN [kind |-> "KeyError", h |-> PopEntry(h)]
    ELSE [kind |-> "pair", key |-> h.entries[Heappop(h.entries, h.heap).item].key,
          priority |-> 0 - h.entries[Heappop(h.entries, h.heap).item].neg_priority,
          h |-> [PopEntry(h) EXCEPT !.key_to_entry =
                    Del(@, h.entries[Heappop(h.entries, h.heap).item].key)]]

\* copy(): a new heap of the valid entries of self.heap, in heap order; the
\* later pair of a key wins in the dict comprehension
ValidPositions(h) == {i \in 1..Len(h.heap) : h.entries[h.heap[i]].is_valid = 1}
LastPositionOf(h, k) ==
    CHOOSE i \in ValidPositions(h) :
        /\ h.entries[h.heap[i]].key = k
        /\ \A j \in ValidPositions(h) : h.entries[h.heap[j]].key = k => j <= i
HeapCopy(h) ==
    NewHeap([k \in {h.entries[h.heap[i]].key : i \in ValidPositions(h)} |->
                0 - h.entries[h.heap[LastPositionOf(h, k)]].neg_priority])

NoPairs == [k \in {} |-> 0]
NoHeapRet == [kind |-> "none"]

HeapIdle ==
    /\ side_heap = NewHeap(NoPairs)
    /\ live_keys = NoPairs
    /\ heap_ret = NoHeapRet

HeapPush ==
    /\ Len(side_heap.entries) < MaxEntries
    /\ \E key \in HeapKeys, priority \in Priorities :
       \E r \in {Push(side_heap, key, priority)} :
          /\ side_heap' = r.h
          /\ heap_ret' = [op |-> "push", kind |-> r.kind]
          /\ live_keys' = IF r.kind = "None"
                          THEN [k \in DOMAIN live_keys \cup {key} |->
                                   IF k = key THEN priority ELSE live_keys[k]]
                          ELSE live_keys
    /\ UNCHANGED exceptHeap

HeapPopKey ==
    /\ \E key \in HeapKeys :
       \E r \in {PopKey(side_heap, key)} :
          /\ side_heap' = r.h
          /\ heap_ret' = IF r.kind = "pair"
                         THEN [op |-> "pop_key", kind |-> r.kind, key |-> r.key,
                               priority |-> r.priority, before |-> live_keys]
                         ELSE [op |-> "pop_key", kind |-> r.kind]
          /\ live_keys' = IF r.kind = "pair" THEN Del(live_keys, key) ELSE live_keys
    /\ UNCHANGED exceptHeap

HeapPopMax ==
    /\ \E r \in {PopMax(side_heap)} :
          /\ side_heap' = r.h
          /\ heap_ret' = IF r.kind = "pair"
                         THEN [op |-> "pop_max", kind |-> r.kind, key |-> r.key,
                               priority |-> r.priority, before |-> live_keys,
                               skipped |-> Len(side_heap.heap) - Len(r.h.heap) - 1]
                         ELSE [op |-> "pop_max", kind |-> r.kind, before |-> live_keys]
          /\ live_keys' = IF r.kind = "pair" THEN Del(live_keys, r.key) ELSE live_keys
    /\ UNCHANGED exceptHeap

HeapCopyCall ==
    /\ heap_ret' = [op |-> "copy", kind |-> "heap", copy |-> HeapCopy(side_heap)]
    /\ UNCHANGED <<side_heap, live_keys, exceptHeap>>
(***************************************************************************)
(* agents/offline_agents.py: MemoizeAgent.eval and _eval.  The test tasks  *)
(* are the tasks 1..NumTasks of the Evaluator, in order; list indices are  *)
(* counted from 1.  Scores are whole numbers.                              *)
(***************************************************************************)
MaxActions == 2
MaxAttempts == 3
MaxTemplates == 2
ActionIds == 1..MaxActions

\* cache.load_simulation_states(task_id)[action_id]: statuses that differ from
\* task to task, every status among them
CachedStatus(task, action) == ((task + 2 * action) % 3) - 1

\* The keys of test_tpl_to_ids in insertion order: a template comes where its
\* first task comes
FirstTaskOf(templates, tpl) ==
    CHOOSE i \in DOMAIN templates :
        templates[i] = tpl /\ \A j \in DOMAIN templates : templates[j] = tpl => i <= j

\* test_tpl_to_ids.items(): the lists of task indices, template by template
TestTplToIds(templates) ==
    [k \in 1..Cardinality({templates[i] : i \in DOMAIN templates}) |->
        KeysInOrder({i \in DOMAIN templates :
            templates[i] =
                templates[KeysInOrder({FirstTaskOf(templates, templates[j]) :
                                          j \in DOMAIN templates})[k]]})]

\* The task_ids of the successive _eval calls of eval
EvalGroups(in) ==
    IF in.mem_template_aware /\ in.within_template
    THEN TestTplToIds(in.templates)
    ELSE <<KeysInOrder(DOMAIN in.templates)>>

\* success_rate after an attempt: unchanged for a weight of 0, moved by the
\* status under 'absolute' scoring
NewSuccessRate(in, success_rate, status) ==
    IF in.mem_scoring_type = "absolute"
    THEN success_rate + status * in.mem_test_simulation_weight
    ELSE success_rate

\* A loop body that pushes the action back at once.
PushBackAtOnce(h, pending, action_id, success_rate) ==
    [h |-> Push(h, action_id, success_rate).h, to_push |-> pending]

\* to_push.append((action_id, success_rate)): the heap is left alone
KeepForLater(h, pending, action_id, success_rate) ==
    [h |-> h, to_push |-> Append(pending, <<action_id, success_rate>>)]

\* for action, reward in to_push: regret_action_heap.push(action, reward)
RECURSIVE PushAll(_, _)
PushAll(h, pending) ==
    IF pending = <<>> THEN h
    ELSE PushAll(Push(h, pending[1][1], pending[1][2]).h, Tail(pending))

\* The loop condition of one task: regret_action_heap and
\* evaluator.get_attempts_for_task(i) < max_attempts_per_task
LoopGoesOn(h, attempts, i, in) ==
    HeapLen(h) > 0 /\ get_attempts_for_task(attempts, i) < in.max_attempts_per_task

NoMemIn ==
    [templates |-> <<>>, mem_template_aware |-> FALSE, within_template |-> FALSE,
     max_attempts_per_task |-> 0, scores |-> NoPairs, mem_scoring_type |-> "relative",
     mem_test_simulation_weight |-> 0]
NoMemPc == [phase |-> "idle", groups |-> <<>>, g |-> 0, i |-> 0]

MemIdle ==
    /\ mem_in = NoMemIn
    /\ mem_pc = NoMemPc
    /\ mem_heap = NewHeap(NoPairs)
    /\ to_push = <<>>
    /\ mem_log = <<>>
    /\ mem_attempts = <<>>
    /\ mem_trace = <<>>

\* eval up to the first _eval's heap: evaluator = phyre.Evaluator(task_ids),
\* the template groups, MaxHeapWithSideLoad(enumerate(action_scores))
MemEval ==
    /\ mem_pc.phase = "called"
    /\ mem_pc' = [phase |-> "loop", groups |-> EvalGroups(mem_in), g |-> 1, i |-> 1]
    /\ mem_heap' = NewHeap(mem_in.scores)
    /\ to_push' = <<>>
    /\ mem_log' = <<>>
    /\ mem_attempts' = [t \in 1..NumTasks |-> 0]
    /\ UNCHANGED <<mem_in, mem_trace, exceptMem>>

\* One iteration of the while loop of task i of the running _eval
MemAttempt ==
    /\ mem_pc.phase = "loop"
    /\ LoopGoesOn(mem_heap, mem_attempts, mem_pc.i, mem_in)
    /\ \E p \in {PopMax(mem_heap)} :
       \E status \in {CachedStatus(mem_pc.groups[mem_pc.g][mem_pc.i], p.key)} :
       \E r \in {MaybeLogAttemptResult(mem_log, mem_attempts, mem_pc.i,
                                       StatusLike("int", status))} :
       \E k \in {KeepForLater(p.h, to_push, p.key,
                              NewSuccessRate(mem_in, p.priority, status))} :
          /\ mem_heap' = k.h
          /\ to_push' = k.to_push
          /\ mem_log' = r.log
          /\ mem_attempts' = r.attempts
          /\ mem_trace' = Append(mem_trace,
                                 [g |-> mem_pc.g, i |-> mem_pc.i,
                                  task |-> mem_pc.groups[mem_pc.g][mem_pc.i],
                                  action |-> p.key, status |-> status,
                                  logged |-> r.ret = "True"])
    /\ UNCHANGED <<mem_in, mem_pc, exceptMem>>

\* The end of the while loop of task i: the pushes, then the next task, the
\* next _eval with a heap of its own, or the return of eval
MemEndTask ==
    /\ mem_pc.phase = "loop"
    /\ ~LoopGoesOn(mem_heap, mem_attempts, mem_pc.i, mem_in)
    /\ to_push' = <<>>
    /\ IF mem_pc.i < Len(mem_pc.groups[mem_pc.g])
       THEN /\ mem_heap' = PushAll(mem_heap, to_push)
            /\ mem_pc' = [mem_pc EXCEPT !.i = @ + 1]
       ELSE IF mem_pc.g < Len(mem_pc.groups)
       THEN /\ mem_heap' = NewHeap(mem_in.scores)
            /\ mem_pc' = [mem_pc EXCEPT !.g = @ + 1, !.i = 1]
       ELSE /\ mem_heap' = PushAll(mem_heap, to_push)
            /\ mem_pc' = [mem_pc EXCEPT !.phase = "returned"]
    /\ UNCHANGED <<mem_in, mem_log, mem_attempts, mem_trace, exceptMem>>
(***************************************************************************)
(* eval_task_complexity.py: TaskEvaller and the loop of main around it.    *)
(* An action is the pair (seed of its pool, entry in the pool).  The pool  *)
(* size and the number of attempts after which the binomial test calls a   *)
(* task bad are scaled down to numbers the runs of the model reach.        *)
(***************************************************************************)
ACTION_POOL_SIZE == 4
BadAfter == 4
MaxWarp == 2
MaxKills == 1
MIN_SOLUTIONS == 3
MAX_SOLUTIONS_TO_KEEP == 5
PoolSeedBase == 1000

\* phyre.action_mappers.ACTION_MAPPERS in the order of the dict
ACTION_MAPPER_NAMES == <<"ball", "two_balls", "ramp">>

\* The keys of stats_per_task_tier in the order __init__ inserts them
TaskTierKeys ==
    [k \in 1..(Len(ACTION_MAPPER_NAMES) * NumTasks) |->
        <<((k - 1) % NumTasks) + 1, ACTION_MAPPER_NAMES[((k - 1) \div NumTasks) + 1]>>]
TaskTierSet == {TaskTierKeys[k] : k \in DOMAIN TaskTierKeys}

\* What simulate_action(..., stable=True) gives for an action on a task: on
\* the ball tier as the task's profile says, on the other tiers unstable
\* solutions (two_balls) or none (ramp)
ProfileOf(in, task, action_tier) ==
    IF action_tier = "ball" THEN in.profiles[task]
    ELSE IF action_tier = "two_balls" THEN "unstable" ELSE "none"

StableStatus(in, task, action_tier, action) ==
    IF action[2] % 3 = 2 /\ ProfileOf(in, task, action_tier) /= "stable" THEN INVALID_INPUT
    ELSE IF ProfileOf(in, task, action_tier) = "none" THEN NOT_SOLVED
    ELSE IF (action[1] + action[2]) % 2 = 1 THEN NOT_SOLVED
    ELSE IF ProfileOf(in, task, action_tier) = "stable" THEN STABLY_SOLVED
    ELSE UNSTABLY_SOLVED

\* _get_actions(action_simulator, start, num_actions): a slice of one pool
GetActions(start, num_actions) ==
    IF (start + num_actions - 1) \div ACTION_POOL_SIZE /= start \div ACTION_POOL_SIZE
    THEN <<"AssertionError">>
    ELSE [j \in 1..num_actions |->
             <<PoolSeedBase + start \div ACTION_POOL_SIZE, (start % ACTION_POOL_SIZE) + j - 1>>]

\* The entries of a list that satisfy a status, in order
RECURSIVE ActionsWithStatus(_, _, _, _, _)
ActionsWithStatus(in, task, action_tier, actions, status) ==
    IF actions = <<>> THEN <<>>
    ELSE IF StableStatus(in, task, action_tier, actions[1]) = status
    THEN <<actions[1]>> \o ActionsWithStatus(in, task, action_tier, Tail(actions), status)
    ELSE ActionsWithStatus(in, task, action_tier, Tail(actions), status)

FirstOf(list, n) == SubSeq(list, 1, IF Len(list) < n THEN Len(list) ELSE n)

\* _eval_single_task(task, action_tier_name, start, num_attempts)
EvalSingleTask(in, task, action_tier, start, num_attempts) ==
    [task_id |-> task, tier |-> action_tier,
     stable_solutions |->
        FirstOf(ActionsWithStatus(in, task, action_tier, GetActions(start, num_attempts),
                                  STABLY_SOLVED), MAX_SOLUTIONS_TO_KEEP),
     unstable_solutions |->
        FirstOf(ActionsWithStatus(in, task, action_tier, GetActions(start, num_attempts),
                                  UNSTABLY_SOLVED), MAX_SOLUTIONS_TO_KEEP),
     statuses |->
        [s \in SimulationStatus |->
            Len(ActionsWithStatus(in, task, action_tier, GetActions(start, num_attempts), s))],
     actions |-> GetActions(start, num_attempts)]

\* sum(status_counts.values())
SumCounts(status_counts) ==
    status_counts[NOT_SOLVED] + status_counts[INVALID_INPUT] + status_counts[SOLVED]
        + status_counts[UNSTABLY_SOLVED] + status_counts[STABLY_SOLVED]

\* compute_flags(tier, status_counts), the flags _update_done_stats reads.
\* binom_test 'greater' rejects from the first solution on; 'less' rejects
\* once BadAfter valid attempts gave no solution.
compute_flags(action_tier, status_counts) ==
    {f \in {"GOOD", "BAD", "GOOD_STABLE", "BAD_STABLE"} :
        \/ f = "GOOD" /\ status_counts[UNSTABLY_SOLVED] + status_counts[STABLY_SOLVED] >= 1
        \/ f = "GOOD_STABLE" /\ status_counts[STABLY_SOLVED] >= 1
        \/ /\ f = "BAD"
           /\ status_counts[UNSTABLY_SOLVED] + status_counts[STABLY_SOLVED] = 0
           /\ SumCounts(status_counts) - status_counts[INVALID_INPUT] >= BadAfter
        \/ /\ f = "BAD_STABLE"
           /\ status_counts[STABLY_SOLVED] = 0
           /\ SumCounts(status_counts) - status_counts[INVALID_INPUT] >= BadAfter}

\* The test of _update_done_stats: the counts settle the pair
HasEnoughData(in, action_tier, status_counts) ==
    /\ ~(SumCounts(status_counts) - status_counts[INVALID_INPUT] < in.min_valid_attempts)
    /\ {"GOOD", "BAD"} \cap compute_flags(action_tier, status_counts) /= {}
    /\ {"GOOD_STABLE", "BAD_STABLE"} \cap compute_flags(action_tier, status_counts) /= {}
    /\ ~("GOOD" \in compute_flags(action_tier, status_counts)
           /\ status_counts[UNSTABLY_SOLVED] + status_counts[STABLY_SOLVED] < MIN_SOLUTIONS)
    /\ ~("GOOD_STABLE" \in compute_flags(action_tier, status_counts)
           /\ status_counts[STABLY_SOLVED] < MIN_SOLUTIONS)

\* An _update_done_stats that leaves the other tiers of a task alone.
UpdateDoneStatsOwnKeyOnly(in, state, task_id, action_tier) ==
    IF ~HasEnoughData(in, action_tier, state.stats[<<task_id, action_tier>>].status_counts)
    THEN state
    ELSE [state EXCEPT !.done = @ \cup {<<task_id, action_tier>>}]

\* _update_done_stats(task_id, action_tier)
UpdateDoneStats(in, state, task_id, action_tier) ==
    IF ~HasEnoughData(in, action_tier, state.stats[<<task_id, action_tier>>].status_counts)
    THEN state
    ELSE IF /\ in.reject_ball_solvable
            /\ action_tier = "ball"
            /\ "GOOD_STABLE" \in
                  compute_flags(action_tier,
                                state.stats[<<task_id, action_tier>>].status_counts)
    THEN [state EXCEPT !.done =
             @ \cup {<<task_id, ACTION_MAPPER_NAMES[t]>> : t \in DOMAIN ACTION_MAPPER_NAMES}]
    ELSE [state EXCEPT !.done = @ \cup {<<task_id, action_tier>>}]

\* The stats of a pair after a result was added to them
AddResult2Stats(stats, res) ==
    [status_counts |-> [s \in SimulationStatus |-> stats.status_counts[s] + res.statuses[s]],
     solutions |-> FirstOf(stats.solutions \o res.stable_solutions, MAX_SOLUTIONS_TO_KEEP),
     unstable_solutions |->
        FirstOf(stats.unstable_solutions \o res.unstable_solutions, MAX_SOLUTIONS_TO_KEEP),
     counted |-> stats.counted \o res.actions]

\* A loop body that adds every result, done or not.
TakeEveryResult(in, state, res) ==
    UpdateDoneStats(in,
                    [state EXCEPT !.stats[<<res.task_id, res.tier>>] =
                        AddResult2Stats(@, res)],
                    res.task_id, res.tier)

\* The body of the loop over the results of the pool, in step
TakeResult(in, state, res) ==
    IF <<res.task_id, res.tier>> \in state.done THEN state
    ELSE UpdateDoneStats(in,
                         [state EXCEPT !.stats[<<res.task_id, res.tier>>] =
                             AddResult2Stats(@, res)],
                         res.task_id, res.tier)

\* The keys step has to work on, in the order of the dict: the pairs not done,
\* the ball ones alone while there are any and reject_ball_solvable is set
Unresolved(state) == SelectSeq(TaskTierKeys, LAMBDA key : key \notin state.done)
BallOnly(keys) == SelectSeq(keys, LAMBDA key : key[2] = "ball")

\* A choice of keys that never narrows to the ball tier.
AllUnresolved(in, state) == Unresolved(state)

KeysToSchedule(in, state) ==
    IF in.reject_ball_solvable /\ BallOnly(Unresolved(state)) /= <<>>
    THEN BallOnly(Unresolved(state))
    ELSE Unresolved(state)

\* A start that does not move on.
SameStart(start, simulate_worker_size) == start

\* done_simulations_per_task_tier[key] += self.simulate_worker_size
NextStart(start, simulate_worker_size) == start + simulate_worker_size

\* The loop over itertools.cycle(list(done_simulations_per_task_tier)):
\* simluation_tasks, given the starts so far and the position in the cycle
RECURSIVE CycleKeys(_, _, _, _, _)
CycleKeys(in, keys, starts, pos, tasks) ==
    IF keys = <<>> THEN tasks
    ELSE IF Len(tasks) + 1 >= in.warp_size
    THEN Append(tasks, [task |-> keys[pos][1], tier |-> keys[pos][2],
                        start |-> starts[keys[pos]],
                        num_attempts |-> in.simulate_worker_size])
    ELSE CycleKeys(in, keys,
                   [starts EXCEPT ![keys[pos]] = NextStart(@, in.simulate_worker_size)],
                   (pos % Len(keys)) + 1,
                   Append(tasks, [task |-> keys[pos][1], tier |-> keys[pos][2],
                                  start |-> starts[keys[pos]],
                                  num_attempts |-> in.simulate_worker_size]))

\* step up to the pool: simluation_tasks
SimulationTasks(in, state) ==
    CycleKeys(in, KeysToSchedule(in, state),
              [key \in TaskTierSet |-> SumCounts(state.stats[key].status_counts)], 1, <<>>)

\* TaskEvaller.__init__
NewEvallerState ==
    [stats |-> [key \in TaskTierSet |->
                   [status_counts |-> [s \in SimulationStatus |-> 0], solutions |-> <<>>,
                    unstable_solutions |-> <<>>, counted |-> <<>>]],
     done |-> {}]

\* done()
EvallerDone(state) == Cardinality(state.done) = Len(TaskTierKeys)

\* maybe_load(checkpoint_path): the pickled state with done_task_tier
\* computed again, key by key
RECURSIVE RecomputeDone(_, _, _)
RecomputeDone(in, state, k) ==
    IF k > Len(TaskTierKeys) THEN state
    ELSE RecomputeDone(in, UpdateDoneStats(in, state, TaskTierKeys[k][1], TaskTierKeys[k][2]),
                       k + 1)

MaybeLoad(in, checkpoint) ==
    IF checkpoint.kind = "absent" THEN NewEvallerState
    ELSE IF checkpoint.kind = "partial" THEN [NewEvallerState EXCEPT !.done = "UnpicklingError"]
    ELSE RecomputeDone(in, [checkpoint.state EXCEPT !.done = {}], 1)
NoTeIn ==
    [profiles |-> <<>>, min_valid_attempts |-> 0, simulate_worker_size |-> 0,
     reject_ball_solvable |-> FALSE, warp_size |-> 0]
NoChunk == [tasks |-> <<>>, taken |-> 0, ball_unresolved |-> FALSE]
\* A file: absent, cut short, or the pickle of a state
AbsentFile == [kind |-> "absent"]
PartialFile == [kind |-> "partial"]
PickleOf(state) == [kind |-> "pickle", state |-> state]
NoFiles == [checkpoint |-> AbsentFile, tmp |-> AbsentFile]
NewWorld == [kills |-> 0, simulated |-> {}]

EvallerIdle ==
    /\ te_in = NoTeIn
    /\ te_state = NewEvallerState
    /\ te_pc = "idle"
    /\ te_chunk = NoChunk
    /\ te_files = NoFiles
    /\ te_world = NewWorld

\* step up to the pool: the chunk is handed to the workers
TeStep ==
    /\ te_pc = "loop"
    /\ ~EvallerDone(te_state)
    /\ \E tasks \in {SimulationTasks(te_in, te_state)} :
          /\ te_chunk' = [tasks |-> tasks, taken |-> 0,
                          ball_unresolved |-> BallOnly(Unresolved(te_state)) /= <<>>]
          /\ te_world' = [te_world EXCEPT !.simulated =
                             @ \cup {<<tasks[k].task, tasks[k].tier>> : k \in DOMAIN tasks}]
    /\ te_pc' = "results"
    /\ UNCHANGED <<te_in, te_state, te_files, exceptEvaller>>

\* step: the next result of self._pool.imap
TeResult ==
    /\ te_pc = "results"
    /\ te_chunk.taken < Len(te_chunk.tasks)
    /\ \E t \in {te_chunk.tasks[te_chunk.taken + 1]} :
       \E res \in {EvalSingleTask(te_in, t.task, t.tier, t.start, t.num_attempts)} :
          te_state' = TakeResult(te_in, te_state, res)
    /\ te_chunk' = [te_chunk EXCEPT !.taken = @ + 1]
    /\ UNCHANGED <<te_in, te_pc, te_files, te_world, exceptEvaller>>

\* maybe_save: open(tmp_path, 'wb')
TeOpenTmp ==
    /\ te_pc = "results"
    /\ te_chunk.taken = Len(te_chunk.tasks)
    /\ te_files' = [te_files EXCEPT !.tmp = PartialFile]
    /\ te_pc' = "dump"
    /\ UNCHANGED <<te_in, te_state, te_chunk, te_world, exceptEvaller>>

\* maybe_save: pickle.dump(self._state, stream) through to the close
TeDump ==
    /\ te_pc = "dump"
    /\ te_files' = [te_files EXCEPT !.tmp = PickleOf(te_state)]
    /\ te_pc' = "rename"
    /\ UNCHANGED <<te_in, te_state, te_chunk, te_world, exceptEvaller>>

\* maybe_save: os.rename(tmp_path, checkpoint_path)
TeRename ==
    /\ te_pc = "rename"
    /\ te_files' = [checkpoint |-> te_files.tmp, tmp |-> AbsentFile]
    /\ te_pc' = "loop"
    /\ UNCHANGED <<te_in, te_state, te_chunk, te_world, exceptEvaller>>

\* main: while not evaller.done() ends; evaller.result()
TeFinish ==
    /\ te_pc = "loop"
    /\ EvallerDone(te_state)
    /\ te_pc' = "finished"
    /\ UNCHANGED <<te_in, te_state, te_chunk, te_files, te_world, exceptEvaller>>

\* The process is killed and the job run again: a new TaskEvaller with the
\* same arguments, then maybe_load(checkpoint_path)
TeKillAndRestart ==
    /\ te_pc \in {"loop", "results", "dump", "rename"}
    /\ te_world.kills < MaxKills
    /\ te_world' = [te_world EXCEPT !.kills = @ + 1]
    /\ te_state' = MaybeLoad(te_in, te_files.checkpoint)
    /\ te_chunk' = NoChunk
    /\ te_pc' = "loop"
    /\ UNCHANGED <<te_in, te_files, exceptEvaller>>
(***************************************************************************)
(* creator/factories.py: select_max_diverse_subset.  The tasks are         *)
(* 1..n, all of them in the eval stats, column j of the matrix being task  *)
(* j.  The threshold is kept as a fraction.                                *)
(***************************************************************************)
MaxSelTasks == 3
MaxSelActions == 2
DIVERSITY_FILTER == [num |-> 3, den |-> 10]

\* action_tasks.sum(axis=1)[a]
RowSum(row) == SumTo(row, Len(row))

\* action_solves > threshold, row by row
ProblemRows(matrix, threshold) ==
    {a \in DOMAIN matrix : RowSum(matrix[a]) * threshold.den > threshold.num}

\* problem_tasks.sum(axis=0)[j]
ProblemTasksSolve(matrix, threshold, j) ==
    Cardinality({a \in ProblemRows(matrix, threshold) : matrix[a][j] = 1})

\* problem_tasks_solve.argmax(): the first column of the largest sum
MaxProblemTask(matrix, threshold, n) ==
    CHOOSE j \in 1..n :
        /\ \A k \in 1..n :
              ProblemTasksSolve(matrix, threshold, k) <= ProblemTasksSolve(matrix, threshold, j)
        /\ \A k \in 1..(j - 1) :
              ProblemTasksSolve(matrix, threshold, k) < ProblemTasksSolve(matrix, threshold, j)

\* A list without its entry j: np.delete(..., j, axis=1) on a row, list.pop(j)
Without(list, j) == SubSeq(list, 1, j - 1) \o SubSeq(list, j + 1, Len(list))

\* threshold = 0.75 * threshold.  The sums it is compared with are whole
\* numbers, so all thresholds strictly between 0 and 1 are kept as one.
Shrunk(threshold) ==
    IF threshold.num < threshold.den THEN threshold
    ELSE [num |-> 3 * threshold.num, den |-> 4 * threshold.den]

NoSelIn == [n |-> 0, max_tasks |-> 0]
NoThreshold == [num |-> 0, den |-> 1]

SelectIdle ==
    /\ sel_pc = "idle"
    /\ sel_in = NoSelIn
    /\ action_tasks = <<>>
    /\ sel_task_ids = <<>>
    /\ sel_threshold = NoThreshold
    /\ sel_ret = <<>>

\* One turn of the while loop
SelectIteration ==
    /\ sel_pc = "loop"
    /\ Len(sel_task_ids) > sel_in.max_tasks
    /\ \E j \in {MaxProblemTask(action_tasks, sel_threshold, Len(sel_task_ids))} :
          IF ProblemTasksSolve(action_tasks, sel_threshold, j) = 0
          THEN /\ sel_threshold' = Shrunk(sel_threshold)
               /\ UNCHANGED <<action_tasks, sel_task_ids>>
          ELSE /\ action_tasks' = [a \in DOMAIN action_tasks |-> Without(action_tasks[a], j)]
               /\ sel_task_ids' = Without(sel_task_ids, j)
               /\ UNCHANGED sel_threshold
    /\ UNCHANGED <<sel_pc, sel_in, sel_ret, exceptSelect>>

\* The end of the loop, the assert and the return
SelectReturn ==
    /\ sel_pc = "loop"
    /\ ~(Len(sel_task_ids) > sel_in.max_tasks)
    /\ IF Len(sel_task_ids) = sel_in.max_tasks \/ Len(sel_task_ids) = sel_in.n
       THEN /\ sel_pc' = "returned"
            /\ sel_ret' = SelectSeq([t \in 1..sel_in.n |-> t],
                                    LAMBDA t : \E k \in DOMAIN sel_task_ids : sel_task_ids[k] = t)
       ELSE /\ sel_pc' = "AssertionError"
            /\ UNCHANGED sel_ret
    /\ UNCHANGED <<sel_in, action_tasks, sel_task_ids, sel_threshold, exceptSelect>>

(***************************************************************************)
(* simulation_cache.py: TIERS, and the main of                             *)
(* scripts/offline_simulation/compress_partial_simuations.py.  A str is    *)
(* the sequence of its characters; a tuple is the set of its members.      *)
(***************************************************************************)
\* The names of creator.constants.SolutionTier, the values of task.tier
TIER_BALL == <<"B", "A", "L", "L">>
TIER_TWO_BALLS == <<"T", "W", "O", "_", "B", "A", "L", "L", "S">>
TIER_RAMP == <<"R", "A", "M", "P">>
TIER_PRE_BALL == <<"P", "R", "E", "_">> \o TIER_BALL
TIER_PRE_TWO_BALLS == <<"P", "R", "E", "_">> \o TIER_TWO_BALLS
TIER_PRE_RAMP == <<"P", "R", "E", "_">> \o TIER_RAMP
TIER_SINGLE_OBJECT == <<"S", "I", "N", "G", "L", "E", "_", "O", "B", "J", "E", "C", "T">>
TIER_GENERAL == <<"G", "E", "N", "E", "R", "A", "L">>
TIER_VIRTUAL_TOOLS == <<"V", "I", "R", "T", "U", "A", "L", "_", "T", "O", "O", "L", "S">>
SolutionTierNames ==
    {TIER_BALL, TIER_TWO_BALLS, TIER_RAMP, TIER_PRE_BALL, TIER_PRE_TWO_BALLS, TIER_PRE_RAMP,
     TIER_SINGLE_OBJECT, TIER_GENERAL, TIER_VIRTUAL_TOOLS}

\* TIERS = {'ball': ('BALL', 'VIRTUAL_TOOLS'), 'two_balls': 'TWO_BALS'}, and
\* the order of its items
TIERS ==
    [ball |-> [type |-> "tuple", members |-> {TIER_BALL, TIER_VIRTUAL_TOOLS}],
     two_balls |-> [type |-> "str", chars |-> <<"T", "W", "O", "_", "B", "A", "L", "S">>]]
TIERS_ITEMS == <<"ball", "two_balls">>

\* x in container: membership in a tuple, substring of a str
PyContains(container, x) ==
    IF container.type = "tuple" THEN x \in container.members
    ELSE \E i \in 0..(Len(container.chars) - Len(x)) :
            SubSeq(container.chars, i + 1, i + Len(x)) = x

\* main up to the loop over the tiers: the task ids of each action tier, in
\* the order of task_dict
TaskIdsPerTier(dict) ==
    [action_tier \in {TIERS_ITEMS[k] : k \in DOMAIN TIERS_ITEMS} |->
        SelectSeq([i \in 1..Len(dict) |-> i],
                  LAMBDA task_id : PyContains(TIERS[action_tier], dict[task_id]))]

NoTaskIds == [action_tier \in {TIERS_ITEMS[k] : k \in DOMAIN TIERS_ITEMS} |-> <<>>]
NoCacheFiles == [action_tier \in {} |-> <<>>]

CompressIdle ==
    /\ task_dict = <<>>
    /\ comp_pc = "idle"
    /\ task_ids_per_tier = NoTaskIds
    /\ cache_files = NoCacheFiles

\* main, lines 41-46
CompressMain ==
    /\ comp_pc = "called"
    /\ task_ids_per_tier' = TaskIdsPerTier(task_dict)
    /\ comp_pc' = "tier 1"
    /\ UNCHANGED <<task_dict, cache_files, exceptCompress>>

\* main_tier(tier, task_ids, num_actions) for the next tier: the cache file
\* of the tier, with the statuses of its sorted task ids
MainTier ==
    /\ \E k \in DOMAIN TIERS_ITEMS :
          /\ comp_pc = IF k = 1 THEN "tier 1" ELSE "tier 2"
          /\ cache_files' =
                [t \in DOMAIN cache_files \cup {TIERS_ITEMS[k]} |->
                    IF t = TIERS_ITEMS[k] THEN task_ids_per_tier[t] ELSE cache_files[t]]
          /\ comp_pc' = IF k = 1 THEN "tier 2" ELSE "done"
    /\ UNCHANGED <<task_dict, task_ids_per_tier, exceptCompress>>
(***************************************************************************)
(* metrics.py: get_fold and the builders of the main eval setups.  A task  *)
(* id 'tpl:idx' is the record of its two parts.  util.stable_shuffle sorts *)
(* by the md5 of string + salt: the order that a salt gives to all strings *)
(* is any order, the same one in every call with that salt.                *)
(***************************************************************************)
MaxTpls == 3
MaxTasksPerTpl == 3
MaxDictTasks == 3
MaxSeed == 1
TRAIN_SHARE == [num |-> 8, den |-> 10]
MAIN_EVAL_SETUPS ==
    {"ball_cross_template", "ball_within_template", "two_balls_cross_template",
     "two_balls_within_template", "ball_phyre_to_tools"}
FoldSeeds == 0..MaxSeed
TemplateIds == 1..MaxTpls

\* The compiled task dicts: for each template the tiers of its tasks, drawn
\* as the number of tasks of each template and the tiers of all tasks in a row
TaskCounts ==
    {lens \in [TemplateIds -> 0..MaxTasksPerTpl] : SumTo(lens, MaxTpls) <= MaxDictTasks}
DictOf(lens, tiers) ==
    [t \in TemplateIds |-> SubSeq(tiers, SumTo(lens, t - 1) + 1, SumTo(lens, t))]
CompiledTaskDicts ==
    UNION {{DictOf(lens, tiers) :
               tiers \in [1..SumTo(lens, MaxTpls) -> {TIER_BALL, TIER_TWO_BALLS, TIER_VIRTUAL_TOOLS}]} :
           lens \in TaskCounts}

FoldTaskId(template_id, idx) == [tpl |-> template_id, idx |-> idx]
AllTaskIds(dict) == {FoldTaskId(t, i) : t \in TemplateIds, i \in 1..MaxTasksPerTpl} \cap {id \in [tpl : TemplateIds, idx : 1..MaxTasksPerTpl] : id.idx <= Len(dict[id.tpl])}
SeqMembers(list) == {list[k] : k \in DOMAIN list}
\* sum(lists, [])
RECURSIVE SumLists(_)
SumLists(lists) == IF lists = <<>> THEN <<>> ELSE Head(lists) \o SumLists(Tail(lists))

\* The orders of a set: what sorting by an md5 key can give
Orders(S) == {o \in [1..Cardinality(S) -> S] : \A i, j \in DOMAIN o : i /= j => o[i] /= o[j]}
\* util.stable_shuffle(strings, salt), md5_order the order of the salt
StableShuffle(strings, md5_order) == SelectSeq(md5_order, LAMBDA s : s \in SeqMembers(strings))

\* sorted(task_ids): the ids are zero padded, tpl first
TaskIdLess(a, b) == a.tpl < b.tpl \/ (a.tpl = b.tpl /\ a.idx < b.idx)
RECURSIVE SortedIds(_)
SortedIds(ids) ==
    IF ids = <<>> THEN <<>>
    ELSE LET k == CHOOSE i \in DOMAIN ids : \A j \in DOMAIN ids : ~TaskIdLess(ids[j], ids[i])
         IN  <<ids[k]>> \o SortedIds(SubSeq(ids, 1, k - 1) \o SubSeq(ids, k + 1, Len(ids)))

\* tier_name.upper()
TierUpper(tier_name) ==
    CASE tier_name \in {"ball", "BALL"} -> TIER_BALL
      [] tier_name = "two_balls" -> TIER_TWO_BALLS
      [] tier_name = "VIRTUAL_TOOLS" -> TIER_VIRTUAL_TOOLS

\* get_task_ids_in_tier: the tasks of the templates whose tasks all have
\* the tier
get_task_ids_in_tier(dict, tier_name) ==
    SumLists([t \in TemplateIds |->
                IF /\ Cardinality(SeqMembers(dict[t])) = 1
                   /\ dict[t][1] = TierUpper(tier_name)
                THEN [i \in 1..Len(dict[t]) |-> FoldTaskId(t, i)]
                ELSE <<>>])

\* _get_task_per_tpl and list(tasks_per_tpl): the tasks of a template, and
\* the templates in the order of their first task
TasksOfTpl(task_ids, template_id) == SelectSeq(task_ids, LAMBDA id : id.tpl = template_id)
TemplatesOf(task_ids) ==
    SelectSeq([t \in TemplateIds |-> t], LAMBDA t : \E k \in DOMAIN task_ids : task_ids[k].tpl = t)

\* int(round(n * train_share)) and int(n * train_share)
RoundShare(n) == (2 * TRAIN_SHARE.num * n + TRAIN_SHARE.den) \div (2 * TRAIN_SHARE.den)
IntShare(n) == (TRAIN_SHARE.num * n) \div TRAIN_SHARE.den

\* An eval setup is a list of train groups (train_ids, test_groups)
TrainGroup(train_ids, eval_groups) == [train |-> train_ids, groups |-> eval_groups]

\* create_dev_set with the wrong slice for dev: every train task again
CreateDevSetFromAll(eval_setup, md5_order) ==
    [g \in DOMAIN eval_setup |->
        LET train_task_ids == StableShuffle(eval_setup[g].train, md5_order)
            num_train == IntShare(Len(train_task_ids))
        IN  TrainGroup(SubSeq(train_task_ids, 1, num_train), <<train_task_ids>>)]

\* create_dev_set, md5_order the order of the salt make_dev{seed}
create_dev_set(eval_setup, md5_order) ==
    [g \in DOMAIN eval_setup |->
        LET train_task_ids == StableShuffle(eval_setup[g].train, md5_order)
            num_train == IntShare(Len(train_task_ids))
        IN  TrainGroup(SubSeq(train_task_ids, 1, num_train),
                       <<SubSeq(train_task_ids, num_train + 1, Len(train_task_ids))>>)]

\* _cross_template with a dev split that shuffles all templates again
CrossTemplateDevFromAll(dict, tier_name, rng, dev_seed) ==
    LET task_ids == get_task_ids_in_tier(dict, tier_name)
        key_order == StableShuffle(TemplatesOf(task_ids),
                                   IF dev_seed THEN rng.dev_half ELSE rng.half)
        train_size == RoundShare(Len(key_order))
        tasks_per_tpl == [k \in DOMAIN key_order |-> TasksOfTpl(task_ids, key_order[k])]
    IN  <<TrainGroup(SumLists(SubSeq(tasks_per_tpl, 1, train_size)),
                     <<SumLists(SubSeq(tasks_per_tpl, train_size + 1, Len(tasks_per_tpl)))>>)>>

\* _cross_template(tier, seed, dev_seed): rng.half and rng.dev_half are the
\* orders of its two salts, dev_seed says whether dev_seed is given
_cross_template(dict, tier_name, rng, dev_seed) ==
    LET task_ids == get_task_ids_in_tier(dict, tier_name)
        all_keys == StableShuffle(TemplatesOf(task_ids), rng.half)
        all_size == RoundShare(Len(all_keys))
        key_order == IF dev_seed THEN StableShuffle(SubSeq(all_keys, 1, all_size), rng.dev_half)
                     ELSE all_keys
        train_size == IF dev_seed THEN IntShare(Len(key_order)) ELSE all_size
        tasks_per_tpl == [k \in DOMAIN key_order |-> TasksOfTpl(task_ids, key_order[k])]
    IN  <<TrainGroup(SumLists(SubSeq(tasks_per_tpl, 1, train_size)),
                     <<SumLists(SubSeq(tasks_per_tpl, train_size + 1, Len(tasks_per_tpl)))>>)>>

\* _single_template(tier, seed) without dev_seed: one train group for each
\* template that has a train task
_single_template(dict, tier_name, rng) ==
    LET task_ids == get_task_ids_in_tier(dict, tier_name)
        group_of(t) ==
            LET task_ids_group == StableShuffle(TasksOfTpl(task_ids, t), rng.ind_tasks)
                train_size == RoundShare(Len(task_ids_group))
            IN  IF train_size = 0 THEN <<>>
                ELSE <<TrainGroup(SubSeq(task_ids_group, 1, train_size),
                                  <<SubSeq(task_ids_group, train_size + 1, Len(task_ids_group))>>)>>
    IN  SumLists([t \in TemplateIds |-> group_of(t)])

\* _within_template(tier, seed, dev_seed)
_within_template(dict, tier_name, rng, dev_seed) ==
    LET per_template_eval_setup == _single_template(dict, tier_name, rng)
        all_train_ids == SumLists([g \in DOMAIN per_template_eval_setup |->
                                      per_template_eval_setup[g].train])
        all_eval_ids == SumLists([g \in DOMAIN per_template_eval_setup |->
                                     per_template_eval_setup[g].groups[1]])
        eval_setup == <<TrainGroup(all_train_ids, <<all_eval_ids>>)>>
    IN  IF dev_seed THEN create_dev_set(eval_setup, rng.make_dev) ELSE eval_setup

\* key_order[::2] and key_order[1::2]
EverySecond(list, first) ==
    SelectSeq(list, LAMBDA s : \E k \in DOMAIN list : list[k] = s /\ k % 2 = first % 2)

\* ball_phyre_to_tools(seed, dev_seed)
ball_phyre_to_tools(dict, rng, dev_seed) ==
    LET tool_task_ids == get_task_ids_in_tier(dict, "VIRTUAL_TOOLS")
        all_keys == StableShuffle(TemplatesOf(tool_task_ids), rng.virtual_tools)
        key_order == IF dev_seed THEN EverySecond(all_keys, 1) ELSE EverySecond(all_keys, 2)
        eval_ids == SumLists([k \in DOMAIN key_order |-> TasksOfTpl(tool_task_ids, key_order[k])])
        train_ids == _cross_template(dict, "BALL", rng, FALSE)[1].train
    IN  <<TrainGroup(train_ids, <<eval_ids>>)>>

\* EVAL_SETUP_BUILDERS[eval_setup]
Builder(dict, eval_setup, rng, dev_seed) ==
    CASE eval_setup = "ball_cross_template" -> _cross_template(dict, "ball", rng, dev_seed)
      [] eval_setup = "two_balls_cross_template" -> _cross_template(dict, "two_balls", rng, dev_seed)
      [] eval_setup = "ball_within_template" -> _within_template(dict, "ball", rng, dev_seed)
      [] eval_setup = "two_balls_within_template" -> _within_template(dict, "two_balls", rng, dev_seed)
      [] eval_setup = "ball_phyre_to_tools" -> ball_phyre_to_tools(dict, rng, dev_seed)

\* _flatten_eval_setup
_flatten_eval_setup(eval_setup) ==
    [train |-> SortedIds(SumLists([g \in DOMAIN eval_setup |-> eval_setup[g].train])),
     test |-> SortedIds(SumLists([g \in DOMAIN eval_setup |-> SumLists(eval_setup[g].groups)]))]

\* get_fold(eval_setup, seed); base_train is the train part of builder(seed)
\* that get_fold drops
get_fold(dict, eval_setup, seed, rng) ==
    LET base == _flatten_eval_setup(Builder(dict, eval_setup, rng, FALSE))
        dev == _flatten_eval_setup(Builder(dict, eval_setup, rng, TRUE))
    IN  [eval_setup |-> eval_setup, seed |-> seed,
         train |-> dev.train, dev |-> dev.test, test |-> base.test,
         base_train |-> base.train]

\* The md5 orders of the salts that the builder of a setup uses with a seed,
\* each over the strings that are shuffled with the salt
Rngs(dict, eval_setup) ==
    LET cross == eval_setup \in {"ball_cross_template", "two_balls_cross_template"}
        within == eval_setup \in {"ball_within_template", "two_balls_within_template"}
        tools == eval_setup = "ball_phyre_to_tools"
        task_ids == get_task_ids_in_tier(dict, IF eval_setup \in {"two_balls_cross_template", "two_balls_within_template"} THEN "two_balls" ELSE "ball")
        tool_task_ids == get_task_ids_in_tier(dict, "VIRTUAL_TOOLS")
        some(used, strings) == IF used THEN Orders(SeqMembers(strings)) ELSE {<<>>}
    IN  [half : some(cross \/ tools, TemplatesOf(task_ids)),
         dev_half : some(cross, TemplatesOf(task_ids)),
         ind_tasks : some(within, task_ids),
         make_dev : some(within, task_ids),
         virtual_tools : some(tools, TemplatesOf(tool_task_ids))]

NoFold == [eval_setup |-> "none"]
FoldIdle ==
    /\ compiled_tasks = [t \in TemplateIds |-> <<>>]
    /\ fold_ret = NoFold

GetFold(eval_setup, seed) ==
    /\ fold_ret = NoFold
    /\ \E rng \in Rngs(compiled_tasks, eval_setup) :
          fold_ret' = get_fold(compiled_tasks, eval_setup, seed, rng)
    /\ UNCHANGED <<compiled_tasks, exceptFold>>
(***************************************************************************)
(* Specifications                                                          *)
(***************************************************************************)
\* The objects of the groups an operation is not about, as constructed.
CoreIdle ==
    /\ tier = "ball"
    /\ SimIdle
    /\ TaskIdle
    /\ config = Config(DEV_MODE)
    /\ EvalIdle
ExtIdle == MetricsIdle /\ EvalFilesIdle /\ PolygonIdle /\ ShapeIdle /\ CreatorIdle /\ GoalIdle /\ RepeatIdle /\ OfflineIdle /\ HeapIdle /\ MemIdle /\ EvallerIdle /\ SelectIdle /\ CompressIdle /\ FoldIdle

\* An ActionSimulator of any tier, answering simulate_action calls.
InitSim ==
    /\ tier \in Tiers
    /\ SimIdle
    /\ TaskIdle
    /\ config = Config(DEV_MODE)
    /\ EvalIdle
    /\ ExtIdle
NextSim == SimulateAction \/ DropSimulation
SpecSim == InitSim /\ [][NextSim]_vars

\* The task cache of a viz server of any mode, and callers of
\* simulate_task_with_input on the same Task objects.
InitTask ==
    /\ tier = "ball"
    /\ SimIdle
    /\ TaskIdle
    /\ config \in {Config(PROD_MODE), Config(DEV_MODE), Config(DEMO_MODE)}
    /\ EvalIdle
    /\ ExtIdle
NextTask == SimulateTaskWithInput \/ SimulateTaskById
SpecTask == InitTask /\ [][NextTask]_vars

\* An Evaluator on which each task has had no attempt or all attempts but one.
InitEval ==
    /\ tier = "ball"
    /\ SimIdle
    /\ TaskIdle
    /\ config = Config(DEV_MODE)
    /\ attempts_per_task_index \in [1..NumTasks -> {0, MAX_TEST_ATTEMPTS - 1}]
    /\ ev_log = LogOfAttempts(attempts_per_task_index, NumTasks)
    /\ ev_call = NoEvalCall
    /\ ev_ret = "None"
    /\ ev_calls = 0
    /\ ExtIdle
NextEval == MaybeLogAttempt
SpecEval == InitEval /\ [][NextEval]_vars

\* compute_metrics, applied to a log.
InitMetrics ==
    /\ CoreIdle
    /\ FoldIdle
    /\ CompressIdle
    /\ SelectIdle
    /\ EvallerIdle
    /\ MemIdle
    /\ HeapIdle
    /\ OfflineIdle
    /\ RepeatIdle
    /\ GoalIdle
    /\ CreatorIdle
    /\ ShapeIdle
    /\ raw_simulation_log \in RawLogs
    /\ metrics = NoMetrics
    /\ EvalFilesIdle
    /\ PolygonIdle
NextMetrics == ComputeMetrics
SpecMetrics == InitMetrics /\ [][NextMetrics]_vars
\* A task script with or without the files of an evaluation of it by this or
\* an older evaluator, edited and evaluated over time.
InitEvalFiles ==
    /\ CoreIdle
    /\ FoldIdle
    /\ CompressIdle
    /\ SelectIdle
    /\ EvallerIdle
    /\ MemIdle
    /\ HeapIdle
    /\ OfflineIdle
    /\ RepeatIdle
    /\ GoalIdle
    /\ CreatorIdle
    /\ ShapeIdle
    /\ MetricsIdle
    /\ PolygonIdle
    /\ task_script \in {TaskScript(h, v) : h \in ScriptHashes, v \in ScriptVersions}
    /\ eval_files \in {NoEvalFiles}
          \cup {[MetaOf(task_script) EXCEPT !.evaluator_version = e] :
                  e \in EvaluatorVersions}
    /\ solution_power = IF eval_files.exists THEN SavedSolutionPower(eval_files)
                        ELSE NoSolutionPower
    /\ loaded = NotLoaded
NextEvalFiles == EditTaskScript \/ Main \/ MaybeLoadEvaluation
SpecEvalFiles == InitEvalFiles /\ [][NextEvalFiles]_vars
\* vertices_to_polygon called once on any vertex list of the grid.
InitPolygon ==
    /\ CoreIdle
    /\ FoldIdle
    /\ CompressIdle
    /\ SelectIdle
    /\ EvallerIdle
    /\ MemIdle
    /\ HeapIdle
    /\ OfflineIdle
    /\ RepeatIdle
    /\ GoalIdle
    /\ CreatorIdle
    /\ ShapeIdle
    /\ MetricsIdle
    /\ EvalFilesIdle
    /\ poly_vertices \in VertexLists
    /\ polygon = NoPolygon
NextPolygon == VerticesToPolygon
SpecPolygon == InitPolygon /\ [][NextPolygon]_vars
\* One builder and one scale: its diameter, the scale of that diameter and
\* the shape rebuilt from it.
InitShape ==
    /\ CoreIdle
    /\ FoldIdle
    /\ CompressIdle
    /\ SelectIdle
    /\ EvallerIdle
    /\ MemIdle
    /\ HeapIdle
    /\ OfflineIdle
    /\ RepeatIdle
    /\ GoalIdle
    /\ CreatorIdle
    /\ MetricsIdle
    /\ EvalFilesIdle
    /\ PolygonIdle
    /\ shape_builder \in ShapeBuilders
    /\ shape_scale \in Scales
    /\ shape_diameter = NoDiameter
    /\ diameter_scale = NoScale
    /\ rebuilt_diameter = NoDiameter
NextShape == Diameter \/ DiameterToDefaultScale \/ Rebuild
SpecShape == InitShape /\ [][NextShape]_vars
\* A TaskCreator from its construction on.
InitCreator ==
    /\ CoreIdle
    /\ FoldIdle
    /\ CompressIdle
    /\ SelectIdle
    /\ EvallerIdle
    /\ MemIdle
    /\ HeapIdle
    /\ OfflineIdle
    /\ RepeatIdle
    /\ GoalIdle
    /\ MetricsIdle
    /\ EvalFilesIdle
    /\ PolygonIdle
    /\ ShapeIdle
    /\ CreatorIdle
NextCreator == Add \/ AddFromBuilder \/ AddConvexPolygon \/ AddMultipolygons \/ UpdateTask
SpecCreator == InitCreator /\ [][NextCreator]_vars
\* An ActionSimulator built for one task, or for that task and a second one.
InitGoal ==
    /\ CoreIdle
    /\ FoldIdle
    /\ CompressIdle
    /\ SelectIdle
    /\ EvallerIdle
    /\ MemIdle
    /\ HeapIdle
    /\ OfflineIdle
    /\ RepeatIdle
    /\ MetricsIdle
    /\ EvalFilesIdle
    /\ PolygonIdle
    /\ ShapeIdle
    /\ CreatorIdle
    /\ sim_tasks \in {<<t>> : t \in GoalTasks}
                       \cup {<<t, GoalTask(MaxBodyId, 0, 0)>> : t \in GoalTasks}
    /\ no_goals \in BOOLEAN
    /\ goals = NoGoals
NextGoal == ConstructActionSimulator
SpecGoal == InitGoal /\ [][NextGoal]_vars
\* A process from its start: calls of simulate_action and magic_ponies in any
\* order.
InitRepeat ==
    /\ CoreIdle
    /\ FoldIdle
    /\ CompressIdle
    /\ SelectIdle
    /\ EvallerIdle
    /\ MemIdle
    /\ HeapIdle
    /\ OfflineIdle
    /\ MetricsIdle
    /\ EvalFilesIdle
    /\ PolygonIdle
    /\ ShapeIdle
    /\ CreatorIdle
    /\ GoalIdle
    /\ RepeatIdle
NextRepeat == PyCall
SpecRepeat == InitRepeat /\ [][NextRepeat]_vars
\* Invocations of save_partial_simulation.main over one cache folder, their
\* steps interleaved in any order.
InitOffline ==
    /\ CoreIdle
    /\ FoldIdle
    /\ CompressIdle
    /\ SelectIdle
    /\ EvallerIdle
    /\ MemIdle
    /\ HeapIdle
    /\ MetricsIdle
    /\ EvalFilesIdle
    /\ PolygonIdle
    /\ ShapeIdle
    /\ CreatorIdle
    /\ GoalIdle
    /\ RepeatIdle
    /\ OfflineIdle
NextOffline == \E j \in Invocations : MainCheck(j) \/ MainWrite(j)
SpecOffline == InitOffline /\ [][NextOffline]_vars
\* A MaxHeapWithSideLoad built from any pairs with distinct keys, then any
\* sequence of push, pop_key, pop_max and copy.
InitHeap ==
    /\ CoreIdle
    /\ FoldIdle
    /\ CompressIdle
    /\ SelectIdle
    /\ EvallerIdle
    /\ MemIdle
    /\ MetricsIdle
    /\ EvalFilesIdle
    /\ PolygonIdle
    /\ ShapeIdle
    /\ CreatorIdle
    /\ GoalIdle
    /\ RepeatIdle
    /\ OfflineIdle
    /\ \E keys \in SUBSET HeapKeys : \E pairs \in [keys -> Priorities] :
          /\ side_heap = NewHeap(pairs)
          /\ live_keys = pairs
    /\ heap_ret = NoHeapRet
NextHeap == HeapPush \/ HeapPopKey \/ HeapPopMax \/ HeapCopyCall
SpecHeap == InitHeap /\ [][NextHeap]_vars
\* One call of MemoizeAgent.eval on the test tasks 1..NumTasks, for any
\* templates of the tasks, scores of the actions and flags.
InitMem ==
    /\ CoreIdle
    /\ FoldIdle
    /\ CompressIdle
    /\ SelectIdle
    /\ EvallerIdle
    /\ MetricsIdle
    /\ EvalFilesIdle
    /\ PolygonIdle
    /\ ShapeIdle
    /\ CreatorIdle
    /\ GoalIdle
    /\ RepeatIdle
    /\ OfflineIdle
    /\ HeapIdle
    /\ \E templates \in [1..NumTasks -> 1..MaxTemplates], aware \in BOOLEAN,
          within \in BOOLEAN, max_attempts \in 1..MaxAttempts,
          scores \in [ActionIds -> Priorities],
          scoring \in {"relative", "absolute"}, weight \in {0, 1} :
          /\ scoring = "relative" => weight = 0
          /\ mem_in = [templates |-> templates, mem_template_aware |-> aware,
                       within_template |-> within, max_attempts_per_task |-> max_attempts,
                       scores |-> scores, mem_scoring_type |-> scoring,
                       mem_test_simulation_weight |-> weight]
    /\ mem_pc = [NoMemPc EXCEPT !.phase = "called"]
    /\ mem_heap = NewHeap(NoPairs)
    /\ to_push = <<>>
    /\ mem_log = <<>>
    /\ mem_attempts = <<>>
    /\ mem_trace = <<>>
NextMem == MemEval \/ MemAttempt \/ MemEndTask
SpecMem == InitMem /\ [][NextMem]_vars
\* main of eval_task_complexity from the construction of the TaskEvaller, no
\* checkpoint on disk, for any simulations of the ball tier, any warp_size and
\* any simulate_worker_size that divides the pool; the process may be killed.
InitEvaller ==
    /\ CoreIdle
    /\ FoldIdle
    /\ CompressIdle
    /\ SelectIdle
    /\ MetricsIdle
    /\ EvalFilesIdle
    /\ PolygonIdle
    /\ ShapeIdle
    /\ CreatorIdle
    /\ GoalIdle
    /\ RepeatIdle
    /\ OfflineIdle
    /\ HeapIdle
    /\ MemIdle
    /\ \E profiles \in [1..NumTasks -> {"stable", "unstable", "none"}],
          min_valid_attempts \in {1, BadAfter + 1},
          simulate_worker_size \in {n \in 1..ACTION_POOL_SIZE : ACTION_POOL_SIZE % n = 0},
          reject_ball_solvable \in BOOLEAN, warp_size \in 1..MaxWarp :
          te_in = [profiles |-> profiles, min_valid_attempts |-> min_valid_attempts,
                   simulate_worker_size |-> simulate_worker_size,
                   reject_ball_solvable |-> reject_ball_solvable, warp_size |-> warp_size]
    /\ te_state = NewEvallerState
    /\ te_pc = "loop"
    /\ te_chunk = NoChunk
    /\ te_files = NoFiles
    /\ te_world = NewWorld
NextEvaller ==
    TeStep \/ TeResult \/ TeOpenTmp \/ TeDump \/ TeRename \/ TeFinish \/ TeKillAndRestart
SpecEvaller == InitEvaller /\ [][NextEvaller]_vars
\* select_max_diverse_subset from the top of its loop, for any 0/1 matrix of
\* actions on candidate tasks and any max_tasks.
InitSelect ==
    /\ CoreIdle
    /\ FoldIdle
    /\ CompressIdle
    /\ MetricsIdle
    /\ EvalFilesIdle
    /\ PolygonIdle
    /\ ShapeIdle
    /\ CreatorIdle
    /\ GoalIdle
    /\ RepeatIdle
    /\ OfflineIdle
    /\ HeapIdle
    /\ MemIdle
    /\ EvallerIdle
    /\ sel_pc = "loop"
    /\ \E n \in 1..MaxSelTasks, max_tasks \in 1..MaxSelTasks :
          /\ sel_in = [n |-> n, max_tasks |-> max_tasks]
          /\ action_tasks \in [1..MaxSelActions -> [1..n -> {0, 1}]]
          /\ sel_task_ids = [t \in 1..n |-> t]
          /\ sel_threshold = [num |-> DIVERSITY_FILTER.num * max_tasks,
                              den |-> DIVERSITY_FILTER.den]
    /\ sel_ret = <<>>
NextSelect == SelectIteration \/ SelectReturn
SpecSelect == InitSelect /\ [][NextSelect]_vars

\* The same, the function running on until it returns or raises.
SpecSelectFair == SpecSelect /\ WF_vars(NextSelect)
\* compress_partial_simuations.main for any tiers of the compiled tasks.
InitCompress ==
    /\ CoreIdle
    /\ FoldIdle
    /\ MetricsIdle
    /\ EvalFilesIdle
    /\ PolygonIdle
    /\ ShapeIdle
    /\ CreatorIdle
    /\ GoalIdle
    /\ RepeatIdle
    /\ OfflineIdle
    /\ HeapIdle
    /\ MemIdle
    /\ EvallerIdle
    /\ SelectIdle
    /\ task_dict \in [1..NumTasks -> SolutionTierNames]
    /\ comp_pc = "called"
    /\ task_ids_per_tier = NoTaskIds
    /\ cache_files = NoCacheFiles
NextCompress == CompressMain \/ MainTier
SpecCompress == InitCompress /\ [][NextCompress]_vars
\* get_fold of a main eval setup over any compiled task dict.
InitFold ==
    /\ CoreIdle
    /\ MetricsIdle
    /\ EvalFilesIdle
    /\ PolygonIdle
    /\ ShapeIdle
    /\ CreatorIdle
    /\ GoalIdle
    /\ RepeatIdle
    /\ OfflineIdle
    /\ HeapIdle
    /\ MemIdle
    /\ EvallerIdle
    /\ SelectIdle
    /\ CompressIdle
    /\ compiled_tasks \in CompiledTaskDicts
    /\ fold_ret = NoFold
NextFold == \E eval_setup \in MAIN_EVAL_SETUPS, seed \in FoldSeeds : GetFold(eval_setup, seed)
SpecFold == InitFold /\ [][NextFold]_vars
Init == InitSim
Next == NextSim \/ NextTask \/ NextEval \/ NextMetrics \/ NextEvalFiles \/ NextPolygon \/ NextShape \/ NextCreator \/ NextGoal \/ NextRepeat \/ NextOffline \/ NextHeap \/ NextMem \/ NextEvaller \/ NextSelect \/ NextCompress \/ NextFold
Spec == Init /\ [][Next]_vars

(***************************************************************************)
(* Properties of simulate_action (SpecSim)                                 *)
(***************************************************************************)
Returned == result.kind /= "none"

HalfShifts == {d \in {0 - Sub, 0, Sub} \X {0 - Sub, 0, Sub} : d /= <<0, 0>>}

\* The status _simulate_user_input yields for the neighbour at offset d.
NeighborStatus(d) ==
    SimulateUserInput(tier, call.task_index, ShiftUserInput(user_input, d[1], d[2]),
                      FALSE, FALSE, call.stride).status

BaseSolves == is_valid /\ Len(calls) >= 1 /\ calls[1].simulated /\ calls[1].is_solved

C1_WitnessUnstable ==
    /\ Returned /\ call.stable /\ BaseSolves
    /\ result.status = UNSTABLY_SOLVED

\* C2: simulate_action always returns a Simulation, never raises; when its status
\* is INVALID_INPUT, images and featurized_objects are both None, whatever
\* need_images, need_featurized_objects and stable are.
C2_InvalidInputHasNoObservations ==
    Returned =>
        /\ result.kind = "returned"
        /\ result.status = INVALID_INPUT =>
              result.images = "None" /\ result.featurized_objects = "None"

\* An occluding placement, asked for with images and featurized objects.
C2_Witness ==
    /\ Returned /\ is_valid /\ call.need_images /\ call.need_featurized_objects
    /\ result.status = INVALID_INPUT
    /\ calls[1].occluded

OutsideUnitBoxOrScene ==
    \/ ~InUnitBox(tier, call.action)
    \/ ~IsInsideScene(ScaledUserInput(tier, call.action))

\* C3: an action with a component outside [0, 1], or whose scaled geometry is
\* outside the scene, is rejected by the action mapper and simulate_action returns
\* INVALID_INPUT without any call of check_for_occlusions or magic_ponies; an
\* input check_for_occlusions rejects is never simulated, and nothing is
\* simulated after an INVALID_INPUT of the base input.
C3_GatesInOrder ==
    Returned =>
        /\ OutsideUnitBoxOrScene => ~is_valid
        /\ ~is_valid =>
              /\ result = Simulation(INVALID_INPUT, "None", "None")
              /\ calls = <<>>
              /\ user_input = EMPTY_USER_INPUT
        /\ \A k \in 1..Len(calls) :
              /\ calls[k].checked
              /\ calls[k].occluded => ~calls[k].simulated
        /\ (Len(calls) >= 1 /\ calls[1].occluded) =>
              Len(calls) = 1 /\ result.status = INVALID_INPUT

\* An action inside the unit box whose geometry leaves the scene.
C3_Witness ==
    /\ Returned
    /\ InUnitBox(tier, call.action)
    /\ ~IsInsideScene(ScaledUserInput(tier, call.action))
    /\ result.status = INVALID_INPUT

\* C4: every ball of a user input the single-ball or two-balls mapper returns as
\* valid lies inside the scene: radius <= x <= SCENE_WIDTH - radius and
\* radius <= y <= SCENE_HEIGHT - radius.
C4_ValidBallsInsideScene ==
    (Returned /\ tier \in {"ball", "two_balls"} /\ is_valid) =>
        AreBallsInside(user_input)

CoordinatesOf(ui) ==
    {ui.balls[i].position.x : i \in 1..Len(ui.balls)}
    \cup {ui.balls[i].position.y : i \in 1..Len(ui.balls)}
    \cup UNION {{ui.polygons[i].vertices[j].x : j \in 1..Len(ui.polygons[i].vertices)} :
                  i \in 1..Len(ui.polygons)}
    \cup UNION {{ui.polygons[i].vertices[j].y : j \in 1..Len(ui.polygons[i].vertices)} :
                  i \in 1..Len(ui.polygons)}
RadiiOf(ui) == {ui.balls[i].radius : i \in 1..Len(ui.balls)}

\* C5 as claimed: every user input handed to the engine, the neighbours of the
\* stability check included, has only integer coordinates and radii.
C5_AllEngineInputsInteger ==
    \A k \in 1..Len(calls) :
        \A v \in CoordinatesOf(calls[k].user_input) \cup RadiiOf(calls[k].user_input) :
            IsInteger(v)

\* C5, amended: the base input handed to the engine has only integer coordinates
\* and radii; an input of the stability check has integer radii and is the base
\* input shifted by half a pixel in x, in y or in both, so that not all of its
\* coordinates are integers.
C5_BaseIntegerNeighborsShifted ==
    \A k \in 1..Len(calls) :
        /\ \A r \in RadiiOf(calls[k].user_input) : IsInteger(r)
        /\ k = 1 =>
              /\ calls[k].user_input = user_input
              /\ \A v \in CoordinatesOf(calls[k].user_input) : IsInteger(v)
        /\ k > 1 =>
              /\ \E d \in HalfShifts :
                    calls[k].user_input = ShiftUserInput(user_input, d[1], d[2])
              /\ \E v \in CoordinatesOf(calls[k].user_input) : ~IsInteger(v)

\* A stability check that got to all the neighbours of balls of a rounded radius.
C5_Witness ==
    /\ Len(calls) = 9
    /\ \E b \in {ScaledUserInput(tier, call.action).balls[i] :
                    i \in 1..Len(ScaledUserInput(tier, call.action).balls)} :
          ~IsInteger(b.radius) \/ ~IsInteger(b.position.x)

BallsOverlap(ui) ==
    LET dx == ui.balls[1].position.x - ui.balls[2].position.x
        dy == ui.balls[1].position.y - ui.balls[2].position.y
        reach == ui.balls[1].radius + ui.balls[2].radius
    IN  dx * dx + dy * dy < reach * reach

\* C6: a two-balls action whose balls overlap (distance of the centres below
\* r1 + r2) is rejected by the action mapper: simulate_action returns
\* INVALID_INPUT and check_for_occlusions is never called.
C6_OverlappingBallsRejected ==
    (Returned /\ tier = "two_balls"
        /\ BallsOverlap(ScaledUserInput("two_balls", call.action))) =>
        /\ ~is_valid
        /\ result = Simulation(INVALID_INPUT, "None", "None")
        /\ calls = <<>>

\* Two overlapping balls that pass every other gate of the mapper.
C6_Witness ==
    /\ Returned /\ tier = "two_balls"
    /\ InUnitBox(tier, call.action)
    /\ IsInsideScene(ScaledUserInput("two_balls", call.action))
    /\ BallsOverlap(ScaledUserInput("two_balls", call.action))
    /\ result.status = INVALID_INPUT

\* C7 as claimed: the keep_space_around_bodies flag handed to the engine is False
\* for the ball and two_balls tiers and True for the ramp tier.
C7_KeepSpaceOnlyForRamp ==
    \A k \in 1..Len(calls) : calls[k].keep_space = (tier = "ramp")

\* C7, amended: the keep_space_around_bodies flag handed to check_for_occlusions
\* and to the simulation is False for every tier, ramp included.
C7_KeepSpaceNeverSet ==
    \A k \in 1..Len(calls) : calls[k].keep_space = FALSE

\* A ramp that was checked for occlusions and simulated.
C7_Witness ==
    /\ tier = "ramp"
    /\ Len(calls) >= 1 /\ calls[1].checked /\ calls[1].simulated

(***************************************************************************)
(* Properties of the task simulations (SpecTask)                           *)
(***************************************************************************)
\* C8: after any sequence of simulate_task_with_input and simulate_task_by_id
\* calls every cached Task still refers to its original scene, that scene has its
\* original bodies and no user-input bodies, and every simulation started from
\* the original scene of its task.
C8_BaseTaskNeverMutated ==
    /\ \A i \in 1..NumTasks :
          /\ task_cache[i] = [live |-> TRUE, taskId |-> TaskId(i), scene |-> i]
          /\ scenes[i] = OriginalScene(i)
    /\ last_sim.task_index /= 0 =>
          last_sim.base = OriginalScene(last_sim.task_index)

\* A simulation that ran with user-input bodies in its scene.
C8_Witness ==
    /\ last_sim.task_index /= 0
    /\ Len(last_sim.simulated.user_input_bodies) >= 2

(***************************************************************************)
(* Properties of the Evaluator (SpecEval)                                  *)
(***************************************************************************)
Appended ==
    ev_log' = Append(ev_log, <<TaskId(ev_call'.task_index),
                               NormalizeSimulationStatus(ev_call'.status)>>)
AttemptsIn(log, i) == Cardinality({k \in 1..Len(log) : log[k][1] = TaskId(i)})

C10_AttemptsCapped ==
    [][/\ \A i \in 1..NumTasks :
             /\ attempts_per_task_index'[i] <= MAX_TEST_ATTEMPTS
             /\ AttemptsIn(ev_log', i) <= MAX_TEST_ATTEMPTS
       /\ attempts_per_task_index[ev_call'.task_index] >= MAX_TEST_ATTEMPTS =>
             /\ ev_log' = ev_log
             /\ attempts_per_task_index' = attempts_per_task_index
             /\ ev_ret' = IF is_invalid(NormalizeSimulationStatus(ev_call'.status))
                          THEN "False" ELSE "AssertionError"]_vars

\* A valid attempt on a task that has used all its attempts.
C10_Witness ==
    /\ ev_ret = "AssertionError"
    /\ attempts_per_task_index[ev_call.task_index] = MAX_TEST_ATTEMPTS
    /\ AttemptsIn(ev_log, ev_call.task_index) = MAX_TEST_ATTEMPTS

\* Evaluator.__len__
EvaluatorLen(log) == Len(log)

LogCoherent(log, attempts) ==
    /\ EvaluatorLen(log) = SumTo(attempts, NumTasks)
    /\ \A i \in 1..NumTasks : get_attempts_for_task(attempts, i) = AttemptsIn(log, i)
    /\ \A k \in 1..Len(log) : ~is_invalid(log[k][2])

\* C11: after any sequence of maybe_log_attempt calls, len(evaluator) is the sum
\* of attempts_per_task_index, get_attempts_for_task(i) is the number of log
\* entries of task i, no log entry has status INVALID_INPUT, the log only grows
\* at its end by the attempt of the call (entries are in call order), and an
\* INVALID_INPUT attempt changes neither the log nor a counter.
C11_LogAndCountersCoherent ==
    /\ LogCoherent(ev_log, attempts_per_task_index)
    /\ [][/\ LogCoherent(ev_log', attempts_per_task_index')
          /\ ev_log' = ev_log \/ Appended
          /\ is_invalid(NormalizeSimulationStatus(ev_call'.status)) =>
                ev_log' = ev_log /\ attempts_per_task_index' = attempts_per_task_index]_vars

\* An INVALID_INPUT attempt was refused after attempts of two tasks were logged.
C11_Witness ==
    /\ ev_ret = "False"
    /\ is_invalid(NormalizeSimulationStatus(ev_call.status))
    /\ \A i \in 1..2 : AttemptsIn(ev_log, i) > 0

(***************************************************************************)
(* Properties of compute_metrics (SpecMetrics)                             *)
(***************************************************************************)
Computed == metrics /= NoMetrics

\* The non-invalid attempts on task t among the first k entries of the raw log.
ValidAttemptsUpTo(raw, t, k) ==
    Cardinality({j \in 1..k : raw[j][1] = t
                              /\ ~is_invalid(NormalizeSimulationStatus(raw[j][2]))})
SolvingEntries(raw, t) ==
    {k \in 1..Len(raw) : raw[k][1] = t /\ raw[k][2].value \in {SOLVED, STABLY_SOLVED,
                                                              UNSTABLY_SOLVED}}
\* The rank, among the non-invalid attempts on t, of the first that solves it
\* (0 when none does).
FirstSolvedAt(raw, t) ==
    IF SolvingEntries(raw, t) = {} THEN 0
    ELSE ValidAttemptsUpTo(raw, t,
             CHOOSE k \in SolvingEntries(raw, t) : \A j \in SolvingEntries(raw, t) : k <= j)

\* C12: independent_solved_by has MAX_TEST_ATTEMPTS + 1 entries; entry i, for i
\* in 0..MAX_TEST_ATTEMPTS, is the number of tasks whose first solving attempt
\* (SOLVED, STABLY_SOLVED or UNSTABLY_SOLVED) is among the task's first i
\* attempts, INVALID_INPUT entries not counting as attempts; entry 0 is 0 and the
\* list does not decrease.
C12_IndependentSolvedBy ==
    Computed =>
        /\ Len(metrics.independent_solved_by) = MAX_TEST_ATTEMPTS + 1
        /\ \A firsts \in {{<<t, FirstSolvedAt(raw_simulation_log, t)>> :
                                t \in MetricsTaskIds}} :
              \A i \in 0..MAX_TEST_ATTEMPTS :
                  metrics.independent_solved_by[i + 1] =
                      Cardinality({p \in firsts : p[2] \in 1..i})
        /\ metrics.independent_solved_by[1] = 0
        /\ \A i \in 1..MAX_TEST_ATTEMPTS :
              metrics.independent_solved_by[i] <= metrics.independent_solved_by[i + 1]

\* One task solved at its first attempt, another at attempt MAX_TEST_ATTEMPTS.
C12_Witness ==
    /\ Computed
    /\ metrics.independent_solved_by[MAX_TEST_ATTEMPTS] = 1
    /\ metrics.independent_solved_by[MAX_TEST_ATTEMPTS + 1] = 2

(***************************************************************************)
(* Properties of the evaluation files (SpecEvalFiles)                      *)
(***************************************************************************)
ScriptChangedSinceEval ==
    eval_files.exists /\ task_script.hash /= eval_files.task_script_hash

\* C13: whenever the hash of the task script differs from the task_script_hash
\* recorded in the eval meta, does_eval_stats_need_update returns True and
\* maybe_load_evaluation returns None, never the cached stats.
C13_StaleStatsNeverServed ==
    ScriptChangedSinceEval =>
        /\ does_eval_stats_need_update(task_script, eval_files)
        /\ loaded.kind /= "stats"

(***************************************************************************)
(* Properties of vertices_to_polygon (SpecPolygon)                         *)
(***************************************************************************)
\* Twice the signed area left of the directed line p -> q at r: positive
\* when r is strictly to the left.
LeftOf(p, q, r) == (q[1] - p[1]) * (r[2] - p[2]) - (q[2] - p[2]) * (r[1] - p[1])

\* The list is the outline of a strictly convex polygon walked
\* counter-clockwise: at least three vertices, and every vertex that is not
\* an end of an edge lies strictly to the left of that edge (so no point
\* repeats, no three are collinear and no two edges cross).
StrictlyConvexCounterClockwise(points) ==
    /\ Len(points) >= 3
    /\ \A i \in 1..Len(points) : \A k \in 1..Len(points) :
          (k /= i /\ k /= (i % Len(points)) + 1) =>
              LeftOf(points[i], points[(i % Len(points)) + 1], points[k]) > 0

\* C14: vertices_to_polygon builds a shape exactly for the vertex lists that
\* are strictly convex polygons listed counter-clockwise, and fails for every
\* other list.
C14_OnlyStrictlyConvexAccepted ==
    polygon /= NoPolygon =>
        (polygon.kind = "Shape" <=> StrictlyConvexCounterClockwise(poly_vertices))

WallSides == <<"bottom-wall", "left-wall", "top-wall", "right-wall">>

\* C16: after any sequence of add operations scene.bodies and body_list have
\* the same length and order, the walls bottom, left, top, right are static
\* bodies at indices 0..3, and the bodyId1 and bodyId2 that update_task wrote
\* index in scene.bodies the thrift bodies of the bodies they were written
\* for.
C16_BodyListsInStep ==
    /\ Len(scene_bodies) = Len(body_list)
    /\ \A i \in 1..Len(body_list) : scene_bodies[i].ref = body_list[i].thrift
    /\ Len(body_list) >= 4
    /\ \A i \in 1..4 :
          /\ body_list[i].object_type = WallSides[i]
          /\ ~body_list[i].dynamic
          /\ scene_bodies[i].bodyType = "STATIC"
    /\ creator_task.bodyId1 /= -1 =>
          /\ scene_bodies[creator_task.bodyId1 + 1].ref = task_bodies[1]
          /\ scene_bodies[creator_task.bodyId2 + 1].ref = task_bodies[2]

\* A task written with the LEFT_OF swap for two added bodies, and a body added
\* after it.
C16_Witness ==
    /\ Len(body_list) = 4 + MaxBodies
    /\ creator_ret.op /= "update_task"
    /\ creator_task.relationships = <<"RIGHT_OF">>
    /\ creator_task.bodyId1 > 3
    /\ creator_task.bodyId1 /= creator_task.bodyId2

\* The update_task call that made this step (a step that is no update_task
\* call leaves creator_ret.op other than "update_task" or changes nothing).
UpdateTaskCalled == creator_ret'.op = "update_task"

\* The bodies of the call have, before it, a label that another body has too.
LabelSharedBeforeCall ==
    AmbiguousDescription(body_list, IndexOf(body_list, creator_ret'.body1),
                         IndexOf(body_list, creator_ret'.body2))

\* C17 as stated: update_task fails whenever a task body has the same label
\* as another body, with or without an explicit description.
C17_AmbiguousAlwaysRejected ==
    [][(UpdateTaskCalled /\ LabelSharedBeforeCall)
          => creator_ret'.outcome = "AssertionError"]_vars

\* C17: update_task fails only if neither body is dynamic or the
\* relationships are not exactly one.  Without a description it first
\* recolours the bodies, after which no body shares a label with a task body,
\* so its ambiguity check never fails; with an explicit description it checks
\* no labels, changes no colours and succeeds also when a task body shares its
\* label with another body.
C17_AmbiguityNeverRejected ==
    [][UpdateTaskCalled =>
          /\ creator_ret'.outcome = "AssertionError" <=>
                \/ Len(creator_ret'.relationships) /= 1
                \/ ~(body_list[IndexOf(body_list, creator_ret'.body1) + 1].dynamic
                       \/ body_list[IndexOf(body_list, creator_ret'.body2) + 1].dynamic)
          /\ (creator_ret'.outcome = "ok" /\ creator_ret'.description = "None") =>
                ~AmbiguousDescription(body_list', creator_task'.bodyId1,
                                      creator_task'.bodyId2)
          /\ creator_ret'.description /= "None" =>
                /\ body_list' = body_list
                /\ scene_bodies' = scene_bodies]_vars

\* update_task given a description has returned a task whose body shares its
\* label with another body.
C17_Witness ==
    /\ creator_ret.op = "update_task"
    /\ creator_ret.outcome = "ok"
    /\ creator_ret.description = "given"
    /\ creator_task.description = "given"
    /\ AmbiguousDescription(body_list, creator_task.bodyId1, creator_task.bodyId2)

(***************************************************************************)
(* Properties of ActionSimulator.goals (SpecGoal)                          *)
(***************************************************************************)
\* C18: when goals are kept, the goal of each task is the triple
\* (obj_type1, obj_type2, rel) in that order, with obj_type1 and obj_type2 the
\* body indices capped at MAX_OBJECT_TYPE - 1 and less than MAX_OBJECT_TYPE,
\* and rel the task's one relationship, less than MAX_RELATION.
C18_GoalIsType1Type2Rel ==
    goals.kind = "array" =>
        \A i \in 1..Len(sim_tasks) :
            /\ goals.rows[i] = <<Min2(sim_tasks[i].bodyId1, MAX_OBJECT_TYPE - 1),
                                 Min2(sim_tasks[i].bodyId2, MAX_OBJECT_TYPE - 1),
                                 sim_tasks[i].relationships[1]>>
            /\ goals.rows[i][1] < MAX_OBJECT_TYPE
            /\ goals.rows[i][2] < MAX_OBJECT_TYPE
            /\ goals.rows[i][3] < MAX_RELATION

(***************************************************************************)
(* Properties of repeated calls (SpecRepeat)                               *)
(***************************************************************************)
\* C19: a call of simulate_action or magic_ponies returns what the same call
\* returns in a process that has made no call before (so two calls with the
\* same arguments return the same, whatever calls came between): the jar
\* cache holds for each diameter what is computed for it, and the shared
\* EMPTY_USER_INPUT stays empty.
C19_SameCallSameResult ==
    /\ py_call /= NoPyCall =>
          py_result = [PyResult(py_call, EmptyCache, EMPTY_USER_INPUT)
                          EXCEPT !.cache = EmptyCache]
    /\ \A d \in DOMAIN DIAMETER_CENTERS : DIAMETER_CENTERS[d] = CenterOfMassY(d)
    /\ shared_user_input = EMPTY_USER_INPUT

\* A call that returns the objects of a jar whose offset was in the cache,
\* next to the offset of another jar.
C19_Witness ==
    /\ py_call.kind = "magic_ponies"
    /\ py_call.need_featurized_objects
    /\ Len(py_result.objects) > 0
    /\ py_result.objects[1].shape = "jar"
    /\ \E d \in DOMAIN DIAMETER_CENTERS : d /= JarDiameter(py_call.task_index)
    /\ py_result.objects[1].x + py_result.objects[1].y
          /= 100 * PixelUnits + 50 * PixelUnits

(***************************************************************************)
(* Properties of the offline simulation cache (SpecOffline)                *)
(***************************************************************************)
\* C20: the result file of a key is written by at most one invocation of
\* main, and a file that exists is never written again, however the
\* invocations interleave.
C20_AtMostOneWriterPerKey ==
    \A key \in SimKeys : Len(sim_writers[key]) <= 1

(***************************************************************************)
(* Properties of MaxHeapWithSideLoad (SpecHeap)                            *)
(***************************************************************************)
\* The (key, priority) pairs a heap object holds as valid entries
ValidPairs(h) ==
    {<<h.entries[h.heap[i]].key, 0 - h.entries[h.heap[i]].neg_priority>> :
        i \in ValidPositions(h)}
PairsOf(f) == {<<k, f[k]>> : k \in DOMAIN f}

\* C21: after any sequence of push, pop_key, pop_max and copy, every key is
\* live at most once; len() is the number of live keys; pop_max returns a
\* live key of maximal priority with that priority (so never a key that
\* pop_key removed and nobody pushed again); pop_key returns the pair it
\* removed; a copy holds exactly the live pairs.
C21_HeapKeepsLiveKeys ==
    /\ DOMAIN side_heap.key_to_entry = DOMAIN live_keys
    /\ HeapLen(side_heap) = Cardinality(DOMAIN live_keys)
    /\ ValidPairs(side_heap) = PairsOf(live_keys)
    /\ Cardinality(ValidPositions(side_heap)) = Cardinality(DOMAIN live_keys)
    /\ heap_ret.kind = "pair" =>
          /\ heap_ret.key \in DOMAIN heap_ret.before
          /\ heap_ret.priority = heap_ret.before[heap_ret.key]
    /\ heap_ret.kind = "pair" /\ heap_ret.op = "pop_max" =>
          \A k \in DOMAIN heap_ret.before : heap_ret.before[k] <= heap_ret.priority
    /\ heap_ret.kind \in {"IndexError", "KeyError"} /\ heap_ret.op = "pop_max" =>
          heap_ret.before = NoPairs
    /\ heap_ret.kind = "heap" =>
          /\ ValidPairs(heap_ret.copy) = PairsOf(live_keys)
          /\ DOMAIN heap_ret.copy.key_to_entry = DOMAIN live_keys
          /\ HeapLen(heap_ret.copy) = Len(heap_ret.copy.heap)

\* pop_max returned a key after it skipped the dead entry of a key that
\* pop_key had removed, while another such entry is still in the heap.
C21_Witness ==
    /\ heap_ret.kind = "pair"
    /\ heap_ret.op = "pop_max"
    /\ heap_ret.skipped > 0
    /\ Len(side_heap.heap) > Cardinality(DOMAIN live_keys)

(***************************************************************************)
(* Properties of MemoizeAgent (SpecMem)                                    *)
(***************************************************************************)
\* The iterations of the loop of the task eval is at
IterationsOfTask ==
    {k \in 1..Len(mem_trace) : mem_trace[k].g = mem_pc.g /\ mem_trace[k].i = mem_pc.i}

\* C22: in _eval, at the start of every task the heap holds every candidate
\* action id exactly once; within one task no action id is tried twice (what
\* was popped is out of the heap until the loop of the task has ended); at
\* most max_attempts_per_task attempts are logged for the task; an
\* INVALID_INPUT status consumes the action and is not counted as an attempt.
C22_EachActionOncePerTask ==
    mem_pc.phase = "loop" =>
       /\ IterationsOfTask = {} =>
             /\ DOMAIN mem_heap.key_to_entry = ActionIds
             /\ Cardinality(ValidPositions(mem_heap)) = Cardinality(ActionIds)
       /\ \A k1, k2 \in IterationsOfTask :
             mem_trace[k1].action = mem_trace[k2].action => k1 = k2
       /\ \A k \in IterationsOfTask :
             /\ mem_trace[k].action \notin DOMAIN mem_heap.key_to_entry
             /\ \E j \in 1..Len(to_push) : to_push[j][1] = mem_trace[k].action
             /\ mem_trace[k].logged = ~is_invalid(mem_trace[k].status)
       /\ Len(to_push) = Cardinality(IterationsOfTask)
       /\ Cardinality({k \in IterationsOfTask : mem_trace[k].logged})
             <= mem_in.max_attempts_per_task
       /\ \A t \in 1..NumTasks : mem_attempts[t] <= mem_in.max_attempts_per_task
       /\ Len(mem_log) = Cardinality({k \in 1..Len(mem_trace) : mem_trace[k].logged})

\* A later task of an _eval, in whose loop an action with status INVALID_INPUT
\* was consumed and another action logged.
C22_Witness ==
    /\ mem_pc.phase = "loop"
    /\ mem_pc.i > 1
    /\ \E k1, k2 \in IterationsOfTask :
          /\ is_invalid(mem_trace[k1].status)
          /\ mem_trace[k2].logged

\* The iteration that wrote entry k of the log
RECURSIVE LoggedIterations(_)
LoggedIterations(trace) ==
    IF trace = <<>> THEN <<>>
    ELSE IF trace[Len(trace)].logged
    THEN Append(LoggedIterations(SubSeq(trace, 1, Len(trace) - 1)), trace[Len(trace)])
    ELSE LoggedIterations(SubSeq(trace, 1, Len(trace) - 1))

\* C23: in MemoizeAgent.eval every attempt is logged under the task it was
\* evaluated on, with the cached status of the chosen action on that task,
\* and every test task gets a loop of its own attempts, also when eval runs
\* one _eval per template on the shared Evaluator.
C23_AttemptsLoggedUnderTheirTask ==
    /\ Len(LoggedIterations(mem_trace)) = Len(mem_log)
    /\ \A k \in 1..Len(mem_log) :
          /\ mem_log[k][1] = TaskId(LoggedIterations(mem_trace)[k].task)
          /\ mem_log[k][2] = CachedStatus(LoggedIterations(mem_trace)[k].task,
                                          LoggedIterations(mem_trace)[k].action)
    /\ mem_pc.phase = "returned" =>
          \A t \in 1..NumTasks : \E k \in 1..Len(mem_trace) : mem_trace[k].task = t

(***************************************************************************)
(* Properties of TaskEvaller (SpecEvaller)                                 *)
(***************************************************************************)
\* A step with every result taken, one after the other
RECURSIVE TakeAll(_, _, _)
TakeAll(in, state, tasks) ==
    IF tasks = <<>> THEN state
    ELSE TakeAll(in,
                 TakeResult(in, state,
                            EvalSingleTask(in, tasks[1].task, tasks[1].tier, tasks[1].start,
                                           tasks[1].num_attempts)),
                 Tail(tasks))

\* The steps of a TaskEvaller that is never killed, to the end
RECURSIVE RunToEnd(_, _)
RunToEnd(in, state) ==
    IF EvallerDone(state) THEN state
    ELSE RunToEnd(in, CHOOSE next \in {TakeAll(in, state, SimulationTasks(in, state))} : TRUE)

\* stats_per_task_tier at the end of a run with a warp_size of 1
StatsOfWarpOne(in) == RunToEnd([in EXCEPT !.warp_size = 1], NewEvallerState).stats

\* C24: as long as a TaskEvaller lives, once a (task, tier) pair is in
\* done_task_tier it stays there and its status_counts, solutions and
\* unstable_solutions never change again (results still to come for it are
\* dropped); the stats_per_task_tier main ends with are those of a run with a
\* warp_size of 1, whatever the warp_size is.
C24_AgnosticOfWarpSize ==
    /\ [](te_pc = "finished" => te_state.stats = StatsOfWarpOne(te_in))
    /\ [][te_world'.kills = te_world.kills =>
             \A key \in te_state.done :
                /\ key \in te_state'.done
                /\ te_state'.stats[key] = te_state.stats[key]]_vars

\* The result just taken was dropped: its pair was done, and its actions are
\* not among the counted ones.
C24_Witness ==
    /\ te_pc = "results"
    /\ te_chunk.taken > 0
    /\ <<te_chunk.tasks[te_chunk.taken].task, te_chunk.tasks[te_chunk.taken].tier>>
          \in te_state.done
    /\ SumCounts(te_state.stats[<<te_chunk.tasks[te_chunk.taken].task,
                                  te_chunk.tasks[te_chunk.taken].tier>>].status_counts)
          <= te_chunk.tasks[te_chunk.taken].start

\* Action number i (from 0): entry i % ACTION_POOL_SIZE of the pool of seed
\* 1000 + i // ACTION_POOL_SIZE
ActionNumber(i) == <<PoolSeedBase + i \div ACTION_POOL_SIZE, i % ACTION_POOL_SIZE>>

\* The stats of a state count the actions 0..total-1 of each pair, once each
CountsAccountedFor(in, state) ==
    \A key \in TaskTierSet :
        /\ SumCounts(state.stats[key].status_counts) % in.simulate_worker_size = 0
        /\ state.stats[key].counted =
              [i \in 1..SumCounts(state.stats[key].status_counts) |-> ActionNumber(i - 1)]

\* The count of each status is the number of counted actions with that status
CountsByStatus(in, state) ==
    \A key \in TaskTierSet : \A s \in SimulationStatus :
        state.stats[key].status_counts[s] =
           Len(ActionsWithStatus(in, key[1], key[2], state.stats[key].counted, s))

\* C25: for every (task, tier) pair the total of status_counts is a multiple
\* of simulate_worker_size and the actions counted are the actions number
\* 0..total-1, each once, through steps, saves, kills and loads; the checkpoint
\* file is absent or holds a complete state of which the same is true; between
\* steps each status is counted as often as the counted actions have it.
C25_ActionsCountedOnce ==
    /\ CountsAccountedFor(te_in, te_state)
    /\ te_files.checkpoint.kind \in {"absent", "pickle"}
    /\ te_files.checkpoint.kind = "pickle" =>
          \/ te_files.checkpoint.state.stats = te_state.stats
          \/ CountsAccountedFor(te_in, te_files.checkpoint.state)
    /\ te_pc \in {"loop", "finished"} => CountsByStatus(te_in, te_state)

\* After a kill during a save, a TaskEvaller loaded from the checkpoint has
\* counted actions of a second pool for some pair.
C25_Witness ==
    /\ te_world.kills > 0
    /\ te_files.tmp.kind = "partial"
    /\ te_files.checkpoint.kind = "pickle"
    /\ \E key \in TaskTierSet :
          /\ SumCounts(te_state.stats[key].status_counts) > ACTION_POOL_SIZE
          /\ SumCounts(te_state.stats[key].status_counts)
                > SumCounts(te_files.checkpoint.state.stats[key].status_counts)

\* The simulations of the ball tier of the task have stable solutions
BallSolvable(in, task) == ProfileOf(in, task, "ball") = "stable"

\* C26: with reject_ball_solvable, a step schedules only pairs of the ball
\* tier as long as a ball pair is unresolved; once the ball pair of a task is
\* done with GOOD_STABLE all tiers of the task are done; no simulation is ever
\* run for another tier of a task that balls solve stably, and the ball tier
\* of such a task, and of no other, ends with GOOD_STABLE.
C26_BallFirstAndRejected ==
    te_in.reject_ball_solvable =>
       /\ te_chunk.ball_unresolved =>
             \A k \in DOMAIN te_chunk.tasks : te_chunk.tasks[k].tier = "ball"
       /\ \A task \in 1..NumTasks :
             /\ <<task, "ball">> \in te_state.done
             /\ "GOOD_STABLE" \in
                   compute_flags("ball", te_state.stats[<<task, "ball">>].status_counts)
             => \A t \in DOMAIN ACTION_MAPPER_NAMES :
                   <<task, ACTION_MAPPER_NAMES[t]>> \in te_state.done
       /\ \A key \in te_world.simulated :
             key[2] /= "ball" => ~BallSolvable(te_in, key[1])
       /\ te_pc = "finished" =>
             \A task \in 1..NumTasks :
                BallSolvable(te_in, task) <=>
                   "GOOD_STABLE" \in
                      compute_flags("ball", te_state.stats[<<task, "ball">>].status_counts)

\* main ended with reject_ball_solvable: one task was solved by a ball and
\* has no count on its other tiers, another was not and had them simulated.
C26_Witness ==
    /\ te_in.reject_ball_solvable
    /\ te_pc = "finished"
    /\ \E t1, t2 \in 1..NumTasks :
          /\ BallSolvable(te_in, t1)
          /\ SumCounts(te_state.stats[<<t1, "two_balls">>].status_counts) = 0
          /\ SumCounts(te_state.stats[<<t1, "ramp">>].status_counts) = 0
          /\ ~BallSolvable(te_in, t2)
          /\ <<t2, "two_balls">> \in te_world.simulated
          /\ <<t2, "ramp">> \in te_world.simulated

(***************************************************************************)
(* Properties of select_max_diverse_subset (SpecSelectFair)                *)
(***************************************************************************)
\* C27: select_max_diverse_subset returns for every 0/1 matrix, and what it
\* returns is max_tasks tasks when more than max_tasks tasks were given and
\* all the given tasks otherwise.
C27_ReturnsMaxTasks ==
    /\ <>(sel_pc = "returned")
    /\ [](sel_pc = "returned" =>
             Len(sel_ret) = IF sel_in.n > sel_in.max_tasks THEN sel_in.max_tasks
                            ELSE sel_in.n)

(***************************************************************************)
(* Properties of the compressed simulation cache (SpecCompress)            *)
(***************************************************************************)
TasksOfTiers(dict, names) == {i \in 1..Len(dict) : dict[i] \in names}
MembersOf(list) == {list[k] : k \in DOMAIN list}

\* C28: the 'ball' cache holds exactly the tasks whose tier is BALL or
\* VIRTUAL_TOOLS, the 'two_balls' cache exactly the tasks whose tier is
\* TWO_BALLS.
C28_CachesFollowTiers ==
    comp_pc = "done" =>
       /\ MembersOf(cache_files["ball"]) = TasksOfTiers(task_dict, {TIER_BALL, TIER_VIRTUAL_TOOLS})
       /\ MembersOf(cache_files["two_balls"]) = TasksOfTiers(task_dict, {TIER_TWO_BALLS})

(***************************************************************************)
(* Properties of get_fold (SpecFold)                                       *)
(***************************************************************************)
FoldTemplates(ids) == {ids[k].tpl : k \in DOMAIN ids}
FoldReturned == fold_ret /= NoFold
PairwiseDisjoint(a, b, c) == a \cap b = {} /\ a \cap c = {} /\ b \cap c = {}
FoldIdsDisjoint ==
    PairwiseDisjoint(SeqMembers(fold_ret.train), SeqMembers(fold_ret.dev), SeqMembers(fold_ret.test))
FoldTemplatesDisjoint ==
    PairwiseDisjoint(FoldTemplates(fold_ret.train), FoldTemplates(fold_ret.dev),
                     FoldTemplates(fold_ret.test))
IsCrossTemplate == fold_ret.eval_setup \in {"ball_cross_template", "two_balls_cross_template"}

\* C29 as stated: for every main eval setup and seed the tuples train, dev
\* and test of get_fold are pairwise disjoint, train and dev hold only tasks
\* of the train part of the underlying split, and for the cross_template
\* setups no template has tasks in two of them.
C29_DevComesFromTrainPart ==
    FoldReturned =>
       /\ FoldIdsDisjoint
       /\ SeqMembers(fold_ret.train) \cup SeqMembers(fold_ret.dev) \subseteq SeqMembers(fold_ret.base_train)
       /\ IsCrossTemplate => FoldTemplatesDisjoint

\* C29 amended: the three tuples are pairwise disjoint for every main eval
\* setup.  For the cross_template and within_template setups train and dev
\* together are exactly the train part of the underlying split, and test is
\* disjoint from it; for the cross_template setups no template has tasks in
\* two of the tuples.  For ball_phyre_to_tools train is the whole train
\* part, and dev and test hold tasks of VIRTUAL_TOOLS templates, none of
\* the train part and no template in both.
C29_FoldsAreDisjoint ==
    FoldReturned =>
       /\ FoldIdsDisjoint
       /\ SeqMembers(fold_ret.test) \cap SeqMembers(fold_ret.base_train) = {}
       /\ IF fold_ret.eval_setup = "ball_phyre_to_tools"
          THEN /\ fold_ret.train = fold_ret.base_train
               /\ SeqMembers(fold_ret.dev) \cap SeqMembers(fold_ret.base_train) = {}
               /\ SeqMembers(fold_ret.dev) \cup SeqMembers(fold_ret.test) \subseteq
                     SeqMembers(get_task_ids_in_tier(compiled_tasks, "VIRTUAL_TOOLS"))
               /\ FoldTemplatesDisjoint
          ELSE /\ SeqMembers(fold_ret.train) \cup SeqMembers(fold_ret.dev) =
                     SeqMembers(fold_ret.base_train)
               /\ Len(fold_ret.train) + Len(fold_ret.dev) = Len(fold_ret.base_train)
               /\ IsCrossTemplate => FoldTemplatesDisjoint

\* A cross_template fold with tasks in train, in dev and in test
C29_Witness ==
    /\ fold_ret.eval_setup = "ball_cross_template"
    /\ fold_ret.train /= <<>>
    /\ fold_ret.dev /= <<>>
    /\ fold_ret.test /= <<>>

====
